---- MODULE Spec2Model ----
(***************************************************************************)
(* Model of the MCP tool server of mcp_contextual_ai: the router of        *)
(* mcp_runner.py, the tool modules tools/db_tools.py and                   *)
(* tools/rag_tools.py, the services services/database.py and               *)
(* services/rag.py, and the helpers utils/validators.py and                *)
(* utils/formatters.py.                                                    *)
(*                                                                         *)
(* Python strings are TLA+ strings, handled character by character with    *)
(* Len, SubSeq and \o.  Python values of an argument bag are tagged        *)
(* records (VStr, VInt, VNone, VList).  An exception is a record with the name of    *)
(* its class and its message.                                              *)
(***************************************************************************)
EXTENDS Integers, Sequences, FiniteSets, TLC

VARIABLES
    phase,        \* position of main(): "init", "serving", "stopped"
    connection,   \* DatabaseService.connection: "none", "open", "closed"
    txn,          \* transaction status of the open connection
    called,       \* TRUE once call_tool has returned at least once
    call,         \* the last call: [name, arguments]
    result,       \* what the last call gave back: [items, raised]
    ops,          \* backing-service operations of the last call, in order
    closes,       \* number of times main() has run db_service.close()
    q,            \* input of the validator under test (pure specifications)
    verdict,      \* its outcome, or NotRun
    tasks,        \* the in-flight calls of the event loop, each with its position
    running       \* the task that holds the event loop, 0 when it is free

vars == <<phase, connection, txn, called, call, result, ops, closes, q, verdict,
         tasks, running>>

(***************************************************************************)
(* Bounds of the model.                                                    *)
(***************************************************************************)
\* number of fragments concatenated into a query for validate_sql_query
MaxFrags == 4
\* the longest question of the short questions, and the largest max_length
MaxQuestionChars == 3
\* the longest document id
MaxIdChars == 3
\* the most rows of a result set
MaxRows == 2

(***************************************************************************)
(* Python values.                                                          *)
(***************************************************************************)
VStr(s) == [t |-> "str", s |-> s]
VInt(n) == [t |-> "int", n |-> n]
VNone == [t |-> "none"]
VBool(b) == [t |-> "bool", b |-> b]
\* a list of dicts, as in the JSON of a RAG answer
VList(items) == [t |-> "list", items |-> items]
\* the float bp / 10000, a similarity score
VFloat(bp) == [t |-> "float", bp |-> bp]
\* a dict as a value, its items a sequence of <<key, value>> pairs
VDict(items) == [t |-> "dict", items |-> items]
\* a datetime without microseconds
VDateTime(year, month, day, hour, minute, second) ==
    [t |-> "datetime", year |-> year, month |-> month, day |-> day,
     hour |-> hour, minute |-> minute, second |-> second]

IsStr(v) == v.t = "str"
\* isinstance(v, int): bool is a subclass of int
IsInt(v) == v.t \in {"int", "bool"}
\* the number an int instance counts as: True is 1 and False is 0
IntOf(v) == IF v.t = "bool" THEN (IF v.b THEN 1 ELSE 0) ELSE v.n
IsNone(v) == v.t = "none"

\* bool(v)
Truthy(v) ==
    CASE IsStr(v) -> v.s # ""
      [] IsInt(v) -> IntOf(v) # 0
      [] v.t \in {"list", "dict"} -> v.items # <<>>
      [] v.t = "float" -> v.bp # 0
      [] v.t = "datetime" -> TRUE
      [] OTHER -> FALSE

\* type(v).__name__
TypeName(v) ==
    CASE v.t = "none" -> "NoneType"
      [] v.t = "datetime" -> "datetime.datetime"
      [] OTHER -> v.t

\* n in decimal, with zeros in front up to width digits
Pad(n, width) ==
    LET digits == ToString(n)
    IN  IF Len(digits) >= width THEN digits
        ELSE SubSeq("000000", 1, width - Len(digits)) \o digits

\* the digits after the point of a float: n of width digits, without the
\* zeros at the end, at least one digit
RECURSIVE FractionDigits(_, _)
FractionDigits(n, width) ==
    IF width > 1 /\ n % 10 = 0 THEN FractionDigits(n \div 10, width - 1)
    ELSE Pad(n, width)

\* str(x) of the float x = bp / 10000
FloatStr(bp) ==
    LET a == IF bp < 0 THEN 0 - bp ELSE bp
    IN  (IF bp < 0 THEN "-" ELSE "") \o ToString(a \div 10000) \o "."
            \o FractionDigits(a % 10000, 4)

\* str(d) of a datetime
DateTimeStr(d) ==
    Pad(d.year, 4) \o "-" \o Pad(d.month, 2) \o "-" \o Pad(d.day, 2) \o " "
        \o Pad(d.hour, 2) \o ":" \o Pad(d.minute, 2) \o ":" \o Pad(d.second, 2)

\* the control characters that can be written in a string of this module
\* (codes 1 to 31, and 127), which repr() prints as \xNN unless it has a
\* short escape for them
ControlChars ==
    << "", "", "", "", "", "", "", "",
       "\t", "\n", "", "\f", "\r", "", "", "",
       "", "", "", "", "", "", "", "",
       "", "", "", "", "", "", "", "" >>

ControlCode(i) == IF i = Len(ControlChars) THEN 127 ELSE i

HexDigits == "0123456789abcdef"

Hex2(n) ==
    SubSeq(HexDigits, (n \div 16) + 1, (n \div 16) + 1)
        \o SubSeq(HexDigits, (n % 16) + 1, (n % 16) + 1)

\* one character of a str inside repr(), between the quotes `quote`
ReprChar(c, quote) ==
    CASE c = "\\" -> "\\\\"
      [] c = quote -> "\\" \o c
      [] c = "\n" -> "\\n"
      [] c = "\r" -> "\\r"
      [] c = "\t" -> "\\t"
      [] \E i \in 1..Len(ControlChars) : ControlChars[i] = c ->
             "\\x" \o Hex2(ControlCode(CHOOSE i \in 1..Len(ControlChars) :
                                           ControlChars[i] = c))
      [] OTHER -> c

RECURSIVE ReprChars(_, _)
ReprChars(s, quote) ==
    IF Len(s) = 0 THEN ""
    ELSE IF Len(s) = 1 THEN ReprChar(s, quote)
         ELSE ReprChars(SubSeq(s, 1, Len(s) \div 2), quote)
                  \o ReprChars(SubSeq(s, Len(s) \div 2 + 1, Len(s)), quote)

\* repr(s) of a str: in double quotes when s has a ' and no ", else in
\* single quotes
ReprStr(s) ==
    LET has(c) == \E i \in 1..Len(s) : SubSeq(s, i, i) = c
        quote == IF has("'") /\ ~has("\"") THEN "\"" ELSE "'"
    IN  quote \o ReprChars(s, quote) \o quote

RECURSIVE PyStr(_), PyRepr(_), ReprItems(_, _), ReprPairs(_, _)

\* the items of a list from the i-th on, as str(list) prints them
ReprItems(items, i) ==
    IF i > Len(items) THEN ""
    ELSE (IF i > 1 THEN ", " ELSE "") \o PyRepr(items[i])
             \o ReprItems(items, i + 1)

\* the items of a dict from the i-th on, as str(dict) prints them
ReprPairs(items, i) ==
    IF i > Len(items) THEN ""
    ELSE (IF i > 1 THEN ", " ELSE "") \o ReprStr(items[i][1]) \o ": "
             \o PyRepr(items[i][2]) \o ReprPairs(items, i + 1)

\* repr(v)
PyRepr(v) ==
    CASE IsStr(v) -> ReprStr(v.s)
      [] v.t = "datetime" ->
             "datetime.datetime(" \o ToString(v.year) \o ", " \o ToString(v.month)
                 \o ", " \o ToString(v.day) \o ", " \o ToString(v.hour)
                 \o ", " \o ToString(v.minute)
                 \o (IF v.second # 0 THEN ", " \o ToString(v.second) ELSE "")
                 \o ")"
      [] OTHER -> PyStr(v)

\* str(v), as an f-string renders it
PyStr(v) ==
    CASE IsStr(v) -> v.s
      [] v.t = "bool" -> IF v.b THEN "True" ELSE "False"
      [] IsInt(v) -> ToString(v.n)
      [] v.t = "float" -> FloatStr(v.bp)
      [] v.t = "list" -> "[" \o ReprItems(v.items, 1) \o "]"
      [] v.t = "dict" -> "{" \o ReprPairs(v.items, 1) \o "}"
      [] v.t = "datetime" -> DateTimeStr(v)
      [] OTHER -> "None"

\* F(x) with x evaluated once, as a local variable holds a computed value
Bind(x, F(_)) == CHOOSE y \in {F(v) : v \in {x}} : TRUE

\* outcomes of a function: a returned value or a raised exception
Ok(val) == [ok |-> TRUE, val |-> val]
Raise(exc, msg) == [ok |-> FALSE, exc |-> exc, msg |-> msg]

(***************************************************************************)
(* str methods, character by character.                                    *)
(***************************************************************************)
Lowers == "abcdefghijklmnopqrstuvwxyz"
Uppers == "ABCDEFGHIJKLMNOPQRSTUVWXYZ"
Digits == "0123456789"

Char(s, i) == SubSeq(s, i, i)
CharsOf(s) == {Char(s, i) : i \in 1..Len(s)}

LowerSet == CharsOf(Lowers)
UpperSet == CharsOf(Uppers)
DigitSet == CharsOf(Digits)
\* the ASCII characters str.strip() removes: blank, \t, \n, \r, \f, the
\* vertical tab (code 11) and the separators of codes 28 to 31
Whitespace == {" ", "\t", "\n", "\r", "\f", "", "", "", "", ""}
\* the characters the regular expression class \w matches
WordChars == LowerSet \cup UpperSet \cup DigitSet \cup {"_"}

UpperMap ==
    [c \in LowerSet |->
        Char(Uppers, CHOOSE i \in 1..Len(Lowers) : Char(Lowers, i) = c)]
LowerMap ==
    [c \in UpperSet |->
        Char(Lowers, CHOOSE i \in 1..Len(Uppers) : Char(Uppers, i) = c)]

UpperChar(c) == IF c \in LowerSet THEN UpperMap[c] ELSE c

LowerChar(c) == IF c \in UpperSet THEN LowerMap[c] ELSE c

\* str.upper() and str.lower(): every character mapped, by halves
RECURSIVE upper(_)
upper(s) ==
    IF Len(s) <= 1 THEN UpperChar(s)
    ELSE upper(SubSeq(s, 1, Len(s) \div 2))
             \o upper(SubSeq(s, Len(s) \div 2 + 1, Len(s)))

RECURSIVE lower(_)
lower(s) ==
    IF Len(s) <= 1 THEN LowerChar(s)
    ELSE lower(SubSeq(s, 1, Len(s) \div 2))
             \o lower(SubSeq(s, Len(s) \div 2 + 1, Len(s)))

RECURSIVE lstrip(_)
lstrip(s) ==
    IF s # "" /\ Char(s, 1) \in Whitespace
    THEN lstrip(SubSeq(s, 2, Len(s)))
    ELSE s

RECURSIVE rstrip(_)
rstrip(s) ==
    IF s # "" /\ Char(s, Len(s)) \in Whitespace
    THEN rstrip(SubSeq(s, 1, Len(s) - 1))
    ELSE s

strip(s) == rstrip(lstrip(s))

startswith(s, p) == Len(s) >= Len(p) /\ SubSeq(s, 1, Len(p)) = p

endswith(s, p) == Len(s) >= Len(p) /\ SubSeq(s, Len(s) - Len(p) + 1, Len(s)) = p

\* p in s
contains(s, p) ==
    \E i \in 1..(Len(s) - Len(p) + 1) : SubSeq(s, i, i + Len(p) - 1) = p

\* whether position i of s (1..Len(s)) holds a \w character
IsWordAt(s, i) == i >= 1 /\ i <= Len(s) /\ Char(s, i) \in WordChars

\* the regular expression assertion \b just before position i of s
WordBoundary(s, i) == IsWordAt(s, i - 1) # IsWordAt(s, i)

\* the positions of s where a word begins: a \w character with \b before it
WordStarts(s) == {i \in 1..Len(s) : IsWordAt(s, i) /\ WordBoundary(s, i)}

\* re.search(rf'\b{keyword}\b', s) finds a match.  A keyword begins with a
\* \w character, so a match begins at one of starts, the word starts of s.
SearchSubstring(keyword, s, starts) == contains(s, keyword)
SearchWholeWord(keyword, s, starts) ==
    \E i \in starts :
        /\ i + Len(keyword) - 1 <= Len(s)
        /\ SubSeq(s, i, i + Len(keyword) - 1) = keyword
        /\ WordBoundary(s, i + Len(keyword))

(***************************************************************************)
(* utils/validators.py                                                     *)
(***************************************************************************)
ValidationError(msg) == Raise("ValidationError", msg)

dangerous_keywords ==
    << "DROP", "DELETE", "TRUNCATE", "ALTER",
       "CREATE", "INSERT", "UPDATE", "GRANT",
       "REVOKE", "EXECUTE", "EXEC" >>

\* the first keyword of the list, from index k on, that the query holds
RECURSIVE FirstKeyword(_, _, _)
FirstKeyword(query_upper, starts, k) ==
    IF k > Len(dangerous_keywords) THEN ""
    ELSE IF SearchWholeWord(dangerous_keywords[k], query_upper, starts)
         THEN dangerous_keywords[k]
         ELSE FirstKeyword(query_upper, starts, k + 1)

validate_sql_query(query) ==
    IF ~(IsStr(query) /\ Truthy(query))
    THEN ValidationError("Query must be a non-empty string")
    ELSE Bind(strip(upper(query.s)), LAMBDA query_upper :
             Bind(FirstKeyword(query_upper, WordStarts(query_upper), 1), LAMBDA hit :
                 IF hit # ""
                 THEN ValidationError("Query contains forbidden keyword: " \o hit
                          \o ". " \o "Only SELECT queries are allowed.")
                 ELSE IF ~startswith(query_upper, "SELECT")
                      THEN ValidationError("Query must start with SELECT. "
                               \o "Only read-only SELECT queries are allowed.")
                      ELSE Ok(TRUE)))

(***************************************************************************)
(* Inputs of the pure specification of validate_sql_query: every           *)
(* concatenation of at most MaxFrags fragments.                            *)
(***************************************************************************)
SqlFrags == {"SELECT", "select ", " * FROM t", ";", " ", "DROP", "drop",
             "ped_c", "UPDATE"}

RECURSIVE Concats(_)
Concats(n) ==
    IF n = 0 THEN {""}
    ELSE LET shorter == Concats(n - 1)
         IN  shorter \cup {s \o f : s \in shorter, f \in SqlFrags}

SqlInputs == Concats(MaxFrags) \ {""}

NotRun == [ok |-> FALSE, exc |-> "", msg |-> ""]

(***************************************************************************)
(* Python dicts: a sequence of <<key, value>> pairs with distinct keys, in *)
(* insertion order.  Rows of the store, JSON objects of the RAG service    *)
(* and argument bags are dicts.                                            *)
(***************************************************************************)
Has(d, k) == \E i \in 1..Len(d) : d[i][1] = k

\* d[k], for a key that d has
Item(d, k) == d[CHOOSE i \in 1..Len(d) : d[i][1] = k][2]

\* d.get(k, default)
Get(d, k, default) == IF Has(d, k) THEN Item(d, k) ELSE default

\* str(KeyError(k)): the repr of the key
KeyError(k) == Raise("KeyError", "'" \o k \o "'")

\* seq[:n]
Slice(seq, n) ==
    IF n >= 0
    THEN SubSeq(seq, 1, IF n < Len(seq) THEN n ELSE Len(seq))
    ELSE SubSeq(seq, 1, IF Len(seq) + n > 0 THEN Len(seq) + n ELSE 0)

\* sep.join(lines)
RECURSIVE join(_, _)
join(sep, lines) ==
    IF lines = <<>> THEN ""
    ELSE IF Len(lines) = 1 THEN lines[1]
         ELSE lines[1] \o sep \o join(sep, Tail(lines))

(***************************************************************************)
(* utils/validators.py, continued                                          *)
(***************************************************************************)
max_limit == 1000

validate_limit(limit) ==
    IF ~IsInt(limit)
    THEN ValidationError("Limit must be an integer")
    ELSE IF IntOf(limit) < 1
         THEN ValidationError("Limit must be at least 1")
         ELSE IF IntOf(limit) > max_limit
              THEN ValidationError("Limit exceeds maximum allowed value of "
                       \o ToString(max_limit))
              ELSE Ok(TRUE)

validate_question_trimmedLength(question, max_length) ==
    IF ~(IsStr(question) /\ Truthy(question))
    THEN ValidationError("Question must be a non-empty string")
    ELSE IF Len(strip(question.s)) = 0
         THEN ValidationError("Question cannot be empty or whitespace only")
         ELSE IF Len(strip(question.s)) > max_length
              THEN ValidationError("Question too long")
              ELSE Ok(TRUE)

\* validate_question, for a question of any value and an int max_length
validate_question(question, max_length) ==
    IF ~(IsStr(question) /\ Truthy(question))
    THEN ValidationError("Question must be a non-empty string")
    ELSE IF Len(strip(question.s)) = 0
         THEN ValidationError("Question cannot be empty or whitespace only")
         ELSE IF Len(question.s) > max_length
              THEN ValidationError("Question too long ("
                       \o ToString(Len(question.s)) \o " characters). "
                       \o "Maximum allowed: " \o ToString(max_length)
                       \o " characters")
              ELSE Ok(TRUE)

\* the strings of a list of str values
Strs(items) == [i \in 1..Len(items) |-> items[i].s]

\* validate_file_path; allowed_extensions is VNone or a VList of str values
validate_file_path(file_path, allowed_extensions) ==
    IF ~(IsStr(file_path) /\ Truthy(file_path))
    THEN ValidationError("File path must be a non-empty string")
    ELSE IF \/ contains(file_path.s, "..")
            \/ startswith(file_path.s, "/etc")
            \/ startswith(file_path.s, "/root")
         THEN ValidationError("Invalid file path: potential security risk")
         ELSE IF Truthy(allowed_extensions)
              THEN LET file_lower == lower(file_path.s)
                       exts == Strs(allowed_extensions.items)
                   IN  IF ~(\E i \in 1..Len(exts) : endswith(file_lower, exts[i]))
                       THEN ValidationError("File extension not allowed. Allowed: "
                                \o join(", ", exts))
                       ELSE Ok(TRUE)
              ELSE Ok(TRUE)

\* re.match(r'^[\w\-\.]+$', s): one or more characters of the class, up to
\* the end of s or to a newline that ends s
MatchesIdPattern(s) ==
    LET n == IF endswith(s, "\n") THEN Len(s) - 1 ELSE Len(s)
    IN  /\ n >= 1
        /\ \A i \in 1..n : Char(s, i) \in WordChars \cup {"-", "."}

validate_document_id(document_id) ==
    IF ~(IsStr(document_id) /\ Truthy(document_id))
    THEN ValidationError("Document ID must be a non-empty string")
    ELSE LET stripped == strip(document_id.s)
         IN  IF Len(stripped) = 0
             THEN ValidationError("Document ID cannot be empty")
             ELSE IF ~MatchesIdPattern(stripped)
                  THEN ValidationError("Document ID can only contain letters, "
                           \o "numbers, hyphens, underscores, and dots")
                  ELSE Ok(TRUE)

(***************************************************************************)
(* utils/formatters.py                                                     *)
(***************************************************************************)
_format_value_noneAsStr(value) == PyStr(value)

\* value.strftime("%Y-%m-%d %H:%M:%S"): the year is printed without zeros
\* in front
strftime(value) ==
    ToString(value.year) \o "-" \o Pad(value.month, 2) \o "-" \o Pad(value.day, 2)
        \o " " \o Pad(value.hour, 2) \o ":" \o Pad(value.minute, 2)
        \o ":" \o Pad(value.second, 2)

_format_value(value) ==
    IF IsNone(value) THEN "NULL"
    ELSE IF value.t = "datetime" THEN strftime(value)
         ELSE IF value.t \in {"list", "dict"} THEN PyStr(value)
              ELSE PyStr(value)

\* the lines of one row: its header and one line per column
RowLines(row, i) ==
    << "\n--- Record " \o ToString(i) \o " ---" >>
    \o [c \in 1..Len(row) |-> row[c][1] \o ": " \o _format_value(row[c][2])]

RECURSIVE RowsLines(_, _)
RowsLines(display_results, i) ==
    IF i > Len(display_results) THEN <<>>
    ELSE RowLines(display_results[i], i) \o RowsLines(display_results, i + 1)

format_database_results_footerWhenFull(results, max_records) ==
    IF results = <<>> THEN "No results found"
    ELSE LET display_results ==
                 IF Truthy(max_records) THEN Slice(results, IntOf(max_records))
                 ELSE results
             result_text == join("\n", RowsLines(display_results, 1))
         IN  IF Truthy(max_records) /\ Len(results) >= IntOf(max_records)
             THEN result_text \o "\n\n(Showing " \o ToString(Len(display_results))
                      \o " of " \o ToString(Len(results)) \o " total records)"
             ELSE result_text

\* max_records is VNone or a VInt
format_database_results(results, max_records) ==
    IF results = <<>> THEN "No results found"
    ELSE LET display_results ==
                 IF Truthy(max_records) THEN Slice(results, IntOf(max_records))
                 ELSE results
             truncated ==
                 IF Truthy(max_records)
                 THEN Len(results) > Len(display_results)
                 ELSE FALSE
             result_text == join("\n", RowsLines(display_results, 1))
         IN  IF truncated
             THEN result_text \o "\n\n(Showing " \o ToString(Len(display_results))
                      \o " of " \o ToString(Len(results)) \o " total records)"
             ELSE result_text

format_error_message_noKind(error, tool_name) ==
    "Error executing " \o tool_name \o ": " \o error.msg

\* error is a raised exception: type(error).__name__ is error.exc
format_error_message(error, tool_name) ==
    "Error executing " \o tool_name \o ": [" \o error.exc \o "] " \o error.msg

\* f"{similarity:.2%}" for an int or a float of at most four decimals
TwoDigits(n) == IF n < 10 THEN "0" \o ToString(n) ELSE ToString(n)
\* f"{similarity:.2%}" of an int or of the float bp / 10000
FormatPercent(similarity) ==
    IF IsInt(similarity)
    THEN ToString(IntOf(similarity) * 100) \o ".00%"
    ELSE LET a == IF similarity.bp < 0 THEN 0 - similarity.bp ELSE similarity.bp
         IN  (IF similarity.bp < 0 THEN "-" ELSE "") \o ToString(a \div 100)
                 \o "." \o TwoDigits(a % 100) \o "%"

\* length of the excerpt of a source text
PreviewLen == 150

_format_context_item(ctx, index) ==
    LET page == Get(ctx, "page", VStr("unknown"))
        similarity == Get(ctx, "similarity", VInt(0))
        text == Get(ctx, "text", VStr("")).s
        text_preview ==
            IF Len(text) > PreviewLen
            THEN SubSeq(text, 1, PreviewLen) \o "..."
            ELSE text
    IN  "\n" \o ToString(index) \o ". Page " \o PyStr(page)
            \o (IF Truthy(similarity)
                THEN " (relevance: " \o FormatPercent(similarity) \o ")"
                ELSE "")
            \o "\n   " \o text_preview \o "\n"

RECURSIVE ContextItems(_, _)
ContextItems(context, i) ==
    IF i > Len(context) THEN ""
    ELSE _format_context_item(context[i], i) \o ContextItems(context, i + 1)

format_rag_response(response) ==
    LET answer == Get(response, "answer", VStr("No answer provided"))
        context == Get(response, "context", VList(<<>>))
    IN  "Answer: " \o PyStr(answer) \o "\n\n"
            \o (IF Truthy(context)
                THEN "Sources:\n" \o ContextItems(context.items, 1)
                ELSE "")

DocumentBlock(doc, i) ==
    LET doc_id == Get(doc, "id", VStr("unknown"))
        title == Get(doc, "title", VStr("Untitled"))
        found == Get(doc, "created_at", VStr("unknown"))
        created == IF found.t = "datetime" THEN VStr(strftime(found)) ELSE found
    IN  ToString(i) \o ". " \o PyStr(title) \o "\n"
            \o "   ID: " \o PyStr(doc_id) \o "\n"
            \o "   Created: " \o PyStr(created) \o "\n"
            \o (IF Has(doc, "description") /\ Truthy(Item(doc, "description"))
                THEN "   Description: " \o PyStr(Item(doc, "description")) \o "\n"
                ELSE "")
            \o (IF Has(doc, "page_count")
                THEN "   Pages: " \o PyStr(Item(doc, "page_count")) \o "\n"
                ELSE "")
            \o "\n"

RECURSIVE DocumentBlocks(_, _)
DocumentBlocks(documents, i) ==
    IF i > Len(documents) THEN ""
    ELSE DocumentBlock(documents[i], i) \o DocumentBlocks(documents, i + 1)

\* documents is the sequence of dicts of the JSON list
format_document_list(documents) ==
    IF documents = <<>> THEN "No documents found"
    ELSE "Found " \o ToString(Len(documents)) \o " document(s):\n\n"
             \o DocumentBlocks(documents, 1)

format_upload_result(response, file_path) ==
    LET doc_id == Get(response, "document_id", VStr("unknown"))
        status == Get(response, "status", VStr("unknown"))
    IN  "PDF uploaded successfully!\n"
            \o "File: " \o file_path \o "\n"
            \o "Document ID: " \o PyStr(doc_id) \o "\n"
            \o "Status: " \o PyStr(status) \o "\n"
            \o (IF Has(response, "title")
                THEN "Title: " \o PyStr(Item(response, "title")) \o "\n"
                ELSE "")
            \o (IF Has(response, "chunks_created")
                THEN "Chunks created: " \o PyStr(Item(response, "chunks_created")) \o "\n"
                ELSE "")

(***************************************************************************)
(* Backing-service operations.  Each service function gives back its       *)
(* outcome, the connection state it leaves and the operations it ran.      *)
(* env holds what the outside world answers during the call:               *)
(*   connectOk  whether psycopg2.connect succeeds                          *)
(*   exec       what cursor.execute / fetchall gives                       *)
(*   exists     os.path.exists(file_path)                                  *)
(*   openOk     whether open(file_path, 'rb') succeeds                     *)
(*   http       what the HTTP request gives                                *)
(***************************************************************************)
\* an operation, with what was sent and what the outside world answered
Op(op, arg, params, answer) ==
    [op |-> op, arg |-> arg, params |-> params, answer |-> answer]

Done(out, conn, tx, os) ==
    [out |-> out, connection |-> conn, txn |-> tx, ops |-> os]

ExecRows(rows) == [kind |-> "rows", rows |-> rows, exc |-> "", msg |-> ""]
ExecError(kind, exc, msg) == [kind |-> kind, rows |-> <<>>, exc |-> exc, msg |-> msg]

HttpOk(json) == [kind |-> "ok", json |-> json, cause |-> ""]
HttpFail(kind, cause) == [kind |-> kind, json |-> <<>>, cause |-> cause]

(***************************************************************************)
(* services/database.py                                                    *)
(***************************************************************************)
ConnectFailure == "could not connect to server: Connection refused"
AbortedTransaction ==
    "current transaction is aborted, commands ignored until end of transaction block"

\* DatabaseService.connect
connect(conn, tx, env) ==
    IF env.connectOk
    THEN Done(Ok(TRUE), "open", "idle", << Op("connect", "", <<>>, TRUE) >>)
    ELSE Done(Raise("OperationalError", ConnectFailure), conn, tx,
              << Op("connect", "", <<>>, FALSE) >>)

\* cursor.execute(query, params); cursor.fetchall() on an open connection.
\* psycopg2 opens a transaction at the first statement; the service never
\* commits or rolls back, so a failed statement leaves the transaction aborted.
CursorExecute(conn, tx, query, params, env, before) ==
    LET aborted == ExecError("aborted", "InFailedSqlTransaction", AbortedTransaction)
        answer == IF tx = "failed" THEN aborted ELSE env.exec
        os == before \o << Op("execute", query, params, answer) >>
    IN  CASE answer.kind = "rows" -> Done(Ok(answer.rows), conn, "intrans", os)
          [] answer.kind = "aborted" -> Done(Raise(answer.exc, answer.msg), conn, tx, os)
          [] answer.kind = "sql_error" ->
                 Done(Raise(answer.exc, answer.msg), conn, "failed", os)
          [] OTHER -> Done(Raise(answer.exc, answer.msg), "closed", "idle", os)

execute_select_query_connectFirst(conn, tx, query, params, env) ==
    Bind(validate_sql_query(query), LAMBDA v :
        LET c == connect(conn, tx, env)
        IN  IF ~v.ok THEN Done(v, c.connection, c.txn, c.ops)
            ELSE IF ~c.out.ok THEN c
                 ELSE CursorExecute(c.connection, c.txn, query.s, params, env,
                                    c.ops))

execute_select_query_alwaysReconnect(conn, tx, query, params, env) ==
    Bind(validate_sql_query(query), LAMBDA v :
        IF ~v.ok THEN Done(v, conn, tx, <<>>)
        ELSE LET c == connect(conn, tx, env)
             IN  IF ~c.out.ok THEN c
                 ELSE CursorExecute(c.connection, c.txn, query.s, params, env,
                                    c.ops))

\* DatabaseService.execute_select_query
execute_select_query(conn, tx, query, params, env) ==
    Bind(validate_sql_query(query), LAMBDA v :
        IF ~v.ok THEN Done(v, conn, tx, <<>>)
        ELSE IF conn \in {"none", "closed"}
             THEN LET c == connect(conn, tx, env)
                  IN  IF ~c.out.ok THEN c
                      ELSE CursorExecute(c.connection, c.txn, query.s, params,
                                         env, c.ops)
             ELSE CursorExecute(conn, tx, query.s, params, env, <<>>))

get_documents_alwaysFiltered(conn, tx, limit, user_id, env) ==
    LET v == validate_limit(limit)
    IN  IF ~v.ok THEN Done(v, conn, tx, <<>>)
        ELSE execute_select_query(conn, tx,
                 VStr("SELECT * FROM documents WHERE user_id = %s LIMIT %s"),
                 <<user_id, limit>>, env)

\* DatabaseService.get_documents
get_documents(conn, tx, limit, user_id, env) ==
    LET v == validate_limit(limit)
    IN  IF ~v.ok THEN Done(v, conn, tx, <<>>)
        ELSE IF Truthy(user_id)
             THEN execute_select_query(conn, tx,
                      VStr("SELECT * FROM documents WHERE user_id = %s LIMIT %s"),
                      <<user_id, limit>>, env)
             ELSE execute_select_query(conn, tx,
                      VStr("SELECT * FROM documents LIMIT %s"),
                      <<limit>>, env)

get_user_interpolated(conn, tx, user_id, env) ==
    Bind(execute_select_query(conn, tx,
             VStr("SELECT * FROM users WHERE id = '" \o PyStr(user_id) \o "'"),
             <<>>, env),
         LAMBDA r :
             IF ~r.out.ok THEN r
             ELSE Done(Ok(IF r.out.val # <<>> THEN << r.out.val[1] >> ELSE <<>>),
                       r.connection, r.txn, r.ops))

\* DatabaseService.get_user: the value is <<row>> for results[0], <<>> for None
get_user(conn, tx, user_id, env) ==
    Bind(execute_select_query(conn, tx,
             VStr("SELECT * FROM users WHERE id = %s"), <<user_id>>, env),
         LAMBDA r :
             IF ~r.out.ok THEN r
             ELSE Done(Ok(IF r.out.val # <<>> THEN << r.out.val[1] >> ELSE <<>>),
                       r.connection, r.txn, r.ops))

\* DatabaseService.close: the connection state it leaves
close(conn) == IF conn # "none" THEN "closed" ELSE conn

(***************************************************************************)
(* services/rag.py                                                         *)
(***************************************************************************)
\* longest question ask_question sends
MaxQuestionLen == 1000

AskQuestionCheck_trimmedLength(question) ==
    IF ~Truthy(question) THEN Raise("ValueError", "Question cannot be empty")
    ELSE IF ~IsStr(question)
         THEN Raise("AttributeError",
                    "'" \o TypeName(question) \o "' object has no attribute 'strip'")
         ELSE IF Len(strip(question.s)) = 0
              THEN Raise("ValueError", "Question cannot be empty")
              ELSE IF Len(strip(question.s)) > MaxQuestionLen
                   THEN Raise("ValueError", "Question too long (max 1000 characters)")
                   ELSE Ok(TRUE)

\* the input checks of RAGService.ask_question: Ok, or the exception raised
AskQuestionCheck(question) ==
    IF ~Truthy(question) THEN Raise("ValueError", "Question cannot be empty")
    ELSE IF ~IsStr(question)
         THEN Raise("AttributeError",
                    "'" \o TypeName(question) \o "' object has no attribute 'strip'")
         ELSE IF Len(strip(question.s)) = 0
              THEN Raise("ValueError", "Question cannot be empty")
              ELSE IF Len(question.s) > MaxQuestionLen
                   THEN Raise("ValueError", "Question too long (max 1000 characters)")
                   ELSE Ok(TRUE)

ask_question_timeoutKind(conn, tx, question, document_id, env) ==
    LET v == AskQuestionCheck(question)
        os == << Op("http_post", "/query", <<question, document_id>>, env.http) >>
    IN  IF ~v.ok THEN Done(v, conn, tx, <<>>)
        ELSE CASE env.http.kind = "ok" -> Done(Ok(env.http.json), conn, tx, os)
               [] env.http.kind = "timeout" ->
                      Done(Raise("Timeout", env.http.cause), conn, tx, os)
               [] OTHER ->
                      Done(Raise("Exception", "RAG API error: " \o env.http.cause),
                           conn, tx, os)

\* RAGService.ask_question
ask_question(conn, tx, question, document_id, env) ==
    LET v == AskQuestionCheck(question)
        os == << Op("http_post", "/query", <<question, document_id>>, env.http) >>
    IN  IF ~v.ok THEN Done(v, conn, tx, <<>>)
        ELSE CASE env.http.kind = "ok" -> Done(Ok(env.http.json), conn, tx, os)
               [] env.http.kind = "timeout" ->
                      Done(Raise("Exception", "RAG API timeout - please try again"),
                           conn, tx, os)
               [] OTHER ->
                      Done(Raise("Exception", "RAG API error: " \o env.http.cause),
                           conn, tx, os)

\* str(metadata) of the dict upload_document builds
MetadataStr(title, description) ==
    PyStr(VDict((IF Truthy(title) THEN << <<"title", title>> >> ELSE <<>>)
                \o (IF Truthy(description)
                    THEN << <<"description", description>> >> ELSE <<>>)))

\* the data field of the upload request
UploadData(title, description) ==
    IF Truthy(title) \/ Truthy(description)
    THEN << VStr(MetadataStr(title, description)) >>
    ELSE <<>>

\* the part of upload_document inside its try block; the OSError of a failed
\* open() prints the repr of the path
UploadSend(conn, tx, path, title, description, env, before) ==
    LET opened == before \o << Op("open", path, <<>>, env.openOk) >>
        sent == opened \o << Op("http_post", "/api/upload",
                                UploadData(title, description), env.http) >>
    IN  IF ~env.openOk
        THEN Done(Raise("PermissionError",
                        "[Errno 13] Permission denied: " \o ReprStr(path)),
                  conn, tx, opened)
        ELSE IF env.http.kind = "ok"
             THEN Done(Ok(env.http.json), conn, tx, sent)
             ELSE Done(Raise("Exception", "Upload error: " \o env.http.cause),
                       conn, tx, sent)

upload_document_noExtensionCheck(conn, tx, file_path, title, description, env) ==
    IF ~IsStr(file_path)
    THEN Done(Raise("TypeError",
             "stat: path should be string, bytes, os.PathLike or integer, not NoneType"),
             conn, tx, <<>>)
    ELSE LET found == file_path.s # "" /\ env.exists
             stat == << Op("stat", file_path.s, <<>>, found) >>
         IN  IF ~found
             THEN Done(Raise("FileNotFoundError", "File not found: " \o file_path.s),
                       conn, tx, stat)
             ELSE UploadSend(conn, tx, file_path.s, title, description, env, stat)

\* RAGService.upload_document; file_path is a str or None
upload_document(conn, tx, file_path, title, description, env) ==
    IF ~IsStr(file_path)
    THEN Done(Raise("TypeError",
             "stat: path should be string, bytes, os.PathLike or integer, not NoneType"),
             conn, tx, <<>>)
    ELSE LET found == file_path.s # "" /\ env.exists
             stat == << Op("stat", file_path.s, <<>>, found) >>
         IN  IF ~found
             THEN Done(Raise("FileNotFoundError", "File not found: " \o file_path.s),
                       conn, tx, stat)
             ELSE IF ~endswith(lower(file_path.s), ".pdf")
                  THEN Done(Raise("ValueError", "Only PDF files are supported"),
                            conn, tx, stat)
                  ELSE UploadSend(conn, tx, file_path.s, title, description,
                                  env, stat)

list_documents_retryOnFailure(conn, tx, env) ==
    LET get == Op("http_get", "/api/documents", <<>>, env.http)
    IN  IF env.http.kind = "ok" THEN Done(Ok(env.http.json), conn, tx, << get >>)
        ELSE Done(Raise("Exception", "Failed to list documents: " \o env.http.cause),
                  conn, tx, << get, get >>)

\* RAGService.list_documents
list_documents(conn, tx, env) ==
    LET os == << Op("http_get", "/api/documents", <<>>, env.http) >>
    IN  IF env.http.kind = "ok" THEN Done(Ok(env.http.json), conn, tx, os)
        ELSE Done(Raise("Exception", "Failed to list documents: " \o env.http.cause),
                  conn, tx, os)

(***************************************************************************)
(* tools/db_tools.py and tools/rag_tools.py                                *)
(***************************************************************************)
TextContent(text) == [type |-> "text", text |-> text]

\* what a call gives back: the returned items, or the exception that escaped
Returned(items) == [items |-> items, raised |-> ""]
Escaped(exc) == [items |-> <<>>, raised |-> exc]

\* the handlers give Done(Ok(text) or Raise(...), ...)
WithText(r, text) == Done(Ok(text), r.connection, r.txn, r.ops)

\* DatabaseTools._handle_query_database
_handle_query_database(conn, tx, arguments, env) ==
    IF ~Has(arguments, "query") THEN Done(KeyError("query"), conn, tx, <<>>)
    ELSE Bind(execute_select_query(conn, tx, Item(arguments, "query"), <<>>, env),
              LAMBDA r :
                  IF ~r.out.ok THEN r
                  ELSE WithText(r, "Query executed successfully. Found "
                           \o ToString(Len(r.out.val)) \o " rows.\n\n"
                           \o format_database_results(r.out.val, VNone)))

\* DatabaseTools._handle_get_documents
_handle_get_documents(conn, tx, arguments, env) ==
    LET limit == Get(arguments, "limit", VInt(10))
        user_id == Get(arguments, "user_id", VNone)
    IN  Bind(get_documents(conn, tx, limit, user_id, env), LAMBDA r :
            IF ~r.out.ok THEN r
            ELSE WithText(r, "Found " \o ToString(Len(r.out.val))
                     \o " documents:\n\n"
                     \o format_database_results(r.out.val, VNone)))

_handle_get_user_info_emptyIsError(conn, tx, arguments, env) ==
    IF ~Has(arguments, "user_id") THEN Done(KeyError("user_id"), conn, tx, <<>>)
    ELSE LET user_id == Item(arguments, "user_id")
         IN  Bind(get_user(conn, tx, user_id, env), LAMBDA r :
                 IF ~r.out.ok THEN r
                 ELSE IF r.out.val = <<>> \/ r.out.val[1] = <<>>
                      THEN Done(Raise("ValueError",
                                      "User not found: " \o PyStr(user_id)),
                                r.connection, r.txn, r.ops)
                      ELSE WithText(r, "User information:\n\n"
                               \o format_database_results(<< r.out.val[1] >>,
                                                           VNone)))

\* DatabaseTools._handle_get_user_info
_handle_get_user_info(conn, tx, arguments, env) ==
    IF ~Has(arguments, "user_id") THEN Done(KeyError("user_id"), conn, tx, <<>>)
    ELSE LET user_id == Item(arguments, "user_id")
         IN  Bind(get_user(conn, tx, user_id, env), LAMBDA r :
                 IF ~r.out.ok THEN r
                 ELSE IF r.out.val = <<>> \/ r.out.val[1] = <<>>
                      THEN WithText(r, "User not found: " \o PyStr(user_id))
                      ELSE WithText(r, "User information:\n\n"
                               \o format_database_results(<< r.out.val[1] >>,
                                                           VNone)))

\* RAGTools._handle_ask_rag
_handle_ask_rag(conn, tx, arguments, env) ==
    IF ~Has(arguments, "question") THEN Done(KeyError("question"), conn, tx, <<>>)
    ELSE Bind(ask_question(conn, tx, Item(arguments, "question"),
                           Get(arguments, "document_id", VNone), env),
              LAMBDA r :
                  IF ~r.out.ok THEN r
                  ELSE WithText(r, format_rag_response(r.out.val)))

\* RAGTools._handle_list_documents
_handle_list_documents_sessionDependent(conn, tx, arguments, env) ==
    Bind(list_documents(conn, tx, env), LAMBDA r :
        IF ~r.out.ok THEN r
        ELSE WithText(r, format_document_list(r.out.val)
                             \o (IF tx = "failed" THEN "(store unavailable)\n" ELSE "")))

_handle_list_documents(conn, tx, arguments, env) ==
    Bind(list_documents(conn, tx, env), LAMBDA r :
        IF ~r.out.ok THEN r
        ELSE WithText(r, format_document_list(r.out.val)))

\* RAGTools._handle_upload_pdf
_handle_upload_pdf(conn, tx, arguments, env) ==
    IF ~Has(arguments, "file_path") THEN Done(KeyError("file_path"), conn, tx, <<>>)
    ELSE LET file_path == Item(arguments, "file_path")
         IN  Bind(upload_document(conn, tx, file_path,
                                  Get(arguments, "title", VNone),
                                  Get(arguments, "description", VNone), env),
                  LAMBDA r :
                      IF ~r.out.ok THEN r
                      ELSE WithText(r, format_upload_result(r.out.val,
                                                            file_path.s)))

\* the exception classes of the model; all derive from Exception
ExceptionClasses ==
    {"ValidationError", "KeyError", "ValueError", "AttributeError", "TypeError",
     "FileNotFoundError", "PermissionError", "Exception", "OperationalError",
     "InFailedSqlTransaction", "UndefinedTable", "Timeout", "RequestException"}

\* the try / except Exception of execute_tool around the handler's outcome
Caught(handled, name, classes) ==
    Bind(handled, LAMBDA h :
        IF h.out.ok
        THEN Done(Returned(<< TextContent(h.out.val) >>),
                  h.connection, h.txn, h.ops)
        ELSE IF h.out.exc \in classes
             THEN Done(Returned(<< TextContent(format_error_message(h.out, name)) >>),
                       h.connection, h.txn, h.ops)
             ELSE Done(Escaped(h.out.exc), h.connection, h.txn, h.ops))

DatabaseHandler(conn, tx, name, arguments, env) ==
    CASE name = "query_database" -> _handle_query_database(conn, tx, arguments, env)
      [] name = "get_documents_from_db" ->
             _handle_get_documents(conn, tx, arguments, env)
      [] name = "get_user_info" -> _handle_get_user_info(conn, tx, arguments, env)
      [] OTHER -> Done(Raise("ValueError", "Unknown database tool: " \o name),
                       conn, tx, <<>>)

RAGHandler(conn, tx, name, arguments, env) ==
    CASE name = "ask_rag" -> _handle_ask_rag(conn, tx, arguments, env)
      [] name = "list_documents" -> _handle_list_documents(conn, tx, arguments, env)
      [] name = "upload_pdf" -> _handle_upload_pdf(conn, tx, arguments, env)
      [] OTHER -> Done(Raise("ValueError", "Unknown RAG tool: " \o name),
                       conn, tx, <<>>)

DatabaseTools_execute_tool_catchValidationOnly(conn, tx, name, arguments, env) ==
    Caught(DatabaseHandler(conn, tx, name, arguments, env), name,
           {"ValidationError"})

\* DatabaseTools.execute_tool
DatabaseTools_execute_tool(conn, tx, name, arguments, env) ==
    Caught(DatabaseHandler(conn, tx, name, arguments, env), name, ExceptionClasses)

\* RAGTools.execute_tool
RAGTools_execute_tool(conn, tx, name, arguments, env) ==
    Caught(RAGHandler(conn, tx, name, arguments, env), name, ExceptionClasses)

(***************************************************************************)
(* mcp_runner.py                                                           *)
(***************************************************************************)
DatabaseToolNames == {"query_database", "get_documents_from_db", "get_user_info"}
RAGToolNames == {"ask_rag", "list_documents", "upload_pdf"}

\* the names of the tools each module advertises, in the order of its list
DatabaseTools_get_tool_definitions ==
    << "query_database", "get_documents_from_db", "get_user_info" >>

RAGTools_get_tool_definitions ==
    << "ask_rag", "list_documents", "upload_pdf" >>

\* list_tools: the names of the tools it returns
list_tools == DatabaseTools_get_tool_definitions \o RAGTools_get_tool_definitions

call_tool_misrouted(conn, tx, name, arguments, env) ==
    IF name \in {"query_database", "get_documents_from_db"}
    THEN DatabaseTools_execute_tool(conn, tx, name, arguments, env)
    ELSE IF name \in RAGToolNames \cup {"get_user_info"}
         THEN RAGTools_execute_tool(conn, tx, name, arguments, env)
         ELSE Done(Returned(<< TextContent("Unknown tool: " \o name) >>),
                   conn, tx, <<>>)

\* call_tool
call_tool(conn, tx, name, arguments, env) ==
    IF name \in DatabaseToolNames
    THEN DatabaseTools_execute_tool(conn, tx, name, arguments, env)
    ELSE IF name \in RAGToolNames
         THEN RAGTools_execute_tool(conn, tx, name, arguments, env)
         ELSE Done(Returned(<< TextContent("Unknown tool: " \o name) >>),
                   conn, tx, <<>>)

(***************************************************************************)
(* The inputs of the calls and the answers of the outside world.           *)
(***************************************************************************)
Dict1(k, v) == << <<k, v>> >>
EmptyDict == <<>>

UserRow1 == << <<"id", VStr("u1")>>, <<"name", VNone>> >>
UserRow2 == << <<"id", VInt(2)>>, <<"name", VStr("Bo")>> >>
RowSets == { <<>>, << UserRow1 >>, << UserRow1, UserRow2 >> }

ExecOutcomes ==
    {ExecRows(rows) : rows \in RowSets}
    \cup {ExecError("sql_error", "UndefinedTable", "relation t does not exist"),
          ExecError("conn_lost", "OperationalError",
                    "server closed the connection unexpectedly")}

QueryValues ==
    {VStr("SELECT * FROM t"), VStr("  select dropped_column from t "),
     VStr("UPDATE t SET x=1"), VStr("SELECT 1; DROP TABLE t"),
     VStr("WITH x AS (SELECT 1) SELECT * FROM x"), VStr(""), VInt(5)}
QueryBags == {EmptyDict} \cup {Dict1("query", v) : v \in QueryValues}

LimitValues == {VInt(1), VInt(1001), VStr("5")}
UserIdValues == {VStr("u1"), VStr(""), VNone}
LimitParts == {EmptyDict} \cup {Dict1("limit", v) : v \in LimitValues}
UserIdParts == {EmptyDict} \cup {Dict1("user_id", v) : v \in UserIdValues}
DocumentsBags == {l \o u : l \in LimitParts, u \in UserIdParts}
UserBags == UserIdParts \cup {Dict1("user_id", VStr("missing-id"))}

\* a question one character longer than ask_question accepts
RECURSIVE Repeat(_, _)
Repeat(s, n) ==
    IF n = 0 THEN ""
    ELSE LET half == Repeat(s, n \div 2)
         IN  half \o half \o (IF n % 2 = 1 THEN s ELSE "")
LongQuestion == Repeat("why? ", MaxQuestionLen \div 5) \o "?"

QuestionValues ==
    {VStr("What is X?"), VStr(""), VStr("  \n"), VStr(LongQuestion),
     VNone, VInt(0), VInt(5), VBool(TRUE)}
QuestionParts == {EmptyDict} \cup {Dict1("question", v) : v \in QuestionValues}
DocumentIdParts == {EmptyDict, Dict1("document_id", VStr("doc-1"))}
AskBags ==
    QuestionParts \cup {Dict1("question", VStr("What is X?")) \o d : d \in DocumentIdParts}

Source1 == << <<"page", VInt(3)>>, <<"similarity", VFloat(8705)>>,
              <<"text", VStr("X is a letter.")>> >>
Source2 == << <<"text", VStr("No page here.")>> >>
AskResponses ==
    { << <<"answer", VStr("X.")>>,
         <<"context", VList(<< Source1, Source2 >>)>> >>,
      << <<"answer", VStr("X.")>>, <<"context", VList(<<>>)>> >>,
      << <<"query", VStr("What is X?")>> >> }

Doc1 == << <<"id", VStr("doc-1")>>, <<"title", VStr("Manual")>>,
           <<"created_at", VStr("2024-01-02")>>, <<"page_count", VInt(12)>> >>
Doc2 == << <<"id", VInt(2)>>, <<"description", VStr("notes")>> >>
DocumentLists == { <<>>, << Doc1 >>, << Doc1, Doc2 >>, << Doc2, Doc1 >> }

\* documents handed to format_document_list directly, which can hold values
\* that a JSON answer cannot
Doc3 == << <<"created_at", VDateTime(5, 1, 2, 3, 4, 5)>> >>
Doc4 == << <<"created_at", VDateTime(999, 12, 31, 0, 0, 0)>>, <<"id", VFloat(15000)>> >>
Doc5 == << <<"created_at", VDateTime(2024, 1, 2, 3, 4, 5)>>, <<"title", VStr("T")>> >>
Doc6 == << <<"created_at", VNone>>, <<"page_count", VInt(0)>> >>
DirectDocumentLists ==
    DocumentLists \cup { << Doc3 >>, << Doc3, Doc4 >>, << Doc5 >>, << Doc6, Doc3 >> }

UploadResponses ==
    { << <<"document_id", VStr("doc-9")>>, <<"status", VStr("processing")>>,
         <<"chunks_created", VInt(4)>> >>,
      EmptyDict }

HttpFailures ==
    {HttpFail("timeout", "Read timed out."),
     HttpFail("error", "500 Server Error: Internal Server Error")}

PathValues ==
    {VStr("/tmp/doc.pdf"), VStr("/tmp/DOC.PDF"), VStr("/tmp/doc.txt"),
     VStr("/tmp/pdf"), VStr("/etc/secret.pdf"), VStr("/root/x.pdf"),
     VStr("docs/../x.pdf"), VStr("/tmp/it's.pdf"), VStr(""), VNone}
PathParts == {EmptyDict} \cup {Dict1("file_path", v) : v \in PathValues}
TitleParts == {EmptyDict,
               << <<"title", VStr("T")>>, <<"description", VStr("D")>> >>,
               << <<"title", VStr("It's")>>, <<"description", VInt(5)>> >>}
UploadBags == PathParts \cup {Dict1("file_path", VStr("/tmp/doc.pdf")) \o m : m \in TitleParts}

UnknownNames == {"delete_all", "", "ASK_RAG", "query_database "}
AnyBags == {EmptyDict, Dict1("query", VStr("SELECT 1"))}

NoHttp == HttpFail("error", "")
Env(connectOk, exec, exists, openOk, http) ==
    [connectOk |-> connectOk, exec |-> exec, exists |-> exists,
     openOk |-> openOk, http |-> http]
DbEnv(connectOk, exec) == Env(connectOk, exec, FALSE, FALSE, NoHttp)
RagEnv(exists, openOk, http) == Env(TRUE, ExecRows(<<>>), exists, openOk, http)

(***************************************************************************)
(* The server: main() connects, serves calls one after the other, and      *)
(* closes the connection when it ends.                                     *)
(***************************************************************************)
NoCall == [name |-> "", arguments |-> EmptyDict]
NoInput == VNone
\* no call is in flight
NoTasks == <<>>

Init ==
    /\ phase = "init"
    /\ connection = "none"
    /\ txn = "idle"
    /\ called = FALSE
    /\ call = NoCall
    /\ result = Returned(<<>>)
    /\ ops = <<>>
    /\ closes = 0
    /\ q = NoInput
    /\ verdict = NotRun
    /\ tasks = NoTasks
    /\ running = 0

\* main: db_service.connect() succeeds and the server starts serving
MainConnect ==
    /\ phase = "init"
    /\ LET c == connect(connection, txn, DbEnv(TRUE, ExecRows(<<>>)))
       IN  /\ connection' = c.connection
           /\ txn' = c.txn
    /\ phase' = "serving"
    /\ UNCHANGED <<called, call, result, ops, closes, q, verdict, tasks, running>>

MainConnectFails_noFinally ==
    /\ phase = "init"
    /\ LET c == connect(connection, txn, DbEnv(FALSE, ExecRows(<<>>)))
       IN  /\ connection' = c.connection
           /\ txn' = c.txn
    /\ phase' = "stopped"
    /\ UNCHANGED <<called, call, result, ops, closes, q, verdict, tasks, running>>

\* main: db_service.connect() raises; the finally block runs close()
MainConnectFails ==
    /\ phase = "init"
    /\ LET c == connect(connection, txn, DbEnv(FALSE, ExecRows(<<>>)))
       IN  /\ connection' = close(c.connection)
           /\ txn' = c.txn
    /\ closes' = closes + 1
    /\ phase' = "stopped"
    /\ UNCHANGED <<called, call, result, ops, q, verdict, tasks, running>>

\* main: the server ends (end of input, KeyboardInterrupt or an error);
\* the finally block runs close()
MainShutdown ==
    /\ phase = "serving"
    /\ connection' = close(connection)
    /\ closes' = closes + 1
    /\ phase' = "stopped"
    /\ UNCHANGED <<txn, called, call, result, ops, q, verdict, tasks, running>>

\* one call of call_tool, from the request to the returned items
Serve(name, arguments, env) ==
    /\ phase = "serving"
    /\ \E r \in {call_tool(connection, txn, name, arguments, env)} :
           /\ connection' = r.connection
           /\ txn' = r.txn
           /\ result' = r.out
           /\ ops' = r.ops
    /\ call' = [name |-> name, arguments |-> arguments]
    /\ called' = TRUE
    /\ UNCHANGED <<phase, closes, q, verdict, tasks, running>>

\* psycopg2.connect is asked only when the handle is absent or closed
ConnectAnswers == IF connection = "open" THEN {TRUE} ELSE BOOLEAN

CallQueryDatabase ==
    \E a \in QueryBags, ok \in ConnectAnswers, e \in ExecOutcomes :
        Serve("query_database", a, DbEnv(ok, e))

CallGetDocuments ==
    \E a \in DocumentsBags, ok \in ConnectAnswers, e \in ExecOutcomes :
        Serve("get_documents_from_db", a, DbEnv(ok, e))

CallGetUserInfo ==
    \E a \in UserBags, ok \in ConnectAnswers, e \in ExecOutcomes :
        Serve("get_user_info", a, DbEnv(ok, e))

CallAskRag ==
    /\ phase = "serving"
    /\ \E a \in AskBags, h \in {HttpOk(j) : j \in AskResponses} \cup HttpFailures :
           Serve("ask_rag", a, RagEnv(FALSE, FALSE, h))

CallListDocuments ==
    /\ phase = "serving"
    /\ \E h \in {HttpOk(j) : j \in DocumentLists} \cup HttpFailures :
           Serve("list_documents", EmptyDict, RagEnv(FALSE, FALSE, h))

\* the file is missing, or cannot be opened, or is sent
UploadAnswers ==
    {RagEnv(FALSE, FALSE, NoHttp), RagEnv(TRUE, FALSE, NoHttp)}
    \cup {RagEnv(TRUE, TRUE, h) :
              h \in {HttpOk(j) : j \in UploadResponses} \cup HttpFailures}

CallUploadPdf ==
    /\ phase = "serving"
    /\ \E a \in UploadBags, e \in UploadAnswers : Serve("upload_pdf", a, e)

CallUnknown ==
    /\ phase = "serving"
    /\ \E n \in UnknownNames, a \in AnyBags :
           Serve(n, a, DbEnv(TRUE, ExecRows(<<>>)))

Next ==
    \/ MainConnect
    \/ MainConnectFails
    \/ MainShutdown
    \/ CallQueryDatabase
    \/ CallGetDocuments
    \/ CallGetUserInfo
    \/ CallAskRag
    \/ CallListDocuments
    \/ CallUploadPdf
    \/ CallUnknown

Spec == Init /\ [][Next]_vars

(***************************************************************************)
(* validate_sql_query alone, on every input of SqlInputs.                  *)
(***************************************************************************)
InitSql ==
    /\ phase = "init"
    /\ connection = "none"
    /\ txn = "idle"
    /\ called = FALSE
    /\ call = NoCall
    /\ result = Returned(<<>>)
    /\ ops = <<>>
    /\ closes = 0
    /\ q \in {VStr(s) : s \in SqlInputs}
    /\ verdict = NotRun
    /\ tasks = NoTasks
    /\ running = 0

ValidateSql ==
    /\ verdict = NotRun
    /\ verdict' = validate_sql_query(q)
    /\ UNCHANGED <<phase, connection, txn, called, call, result, ops, closes, q, tasks, running>>

NextSql == ValidateSql

SpecSql == InitSql /\ [][NextSql]_vars

(***************************************************************************)
(* The validators and formatters alone, each on every input of its set.    *)
(***************************************************************************)
\* the strings of at most n characters of alphabet
RECURSIVE StringsOver(_, _)
StringsOver(alphabet, n) ==
    IF n = 0 THEN {""}
    ELSE LET shorter == StringsOver(alphabet, n - 1)
         IN  shorter \cup {s \o c : s \in shorter, c \in alphabet}

LimitInputs ==
    {VInt(n) : n \in {-1, 0, 1, 2, 999, 1000, 1001}}
    \cup {VBool(TRUE), VBool(FALSE), VStr("5"), VStr(""), VNone,
          VFloat(25000), VFloat(50000)}

QuestionAlphabet == {" ", "a", "\n", ""}
QuestionInputs ==
    {[question |-> VStr(s), max_length |-> l] :
        s \in StringsOver(QuestionAlphabet, MaxQuestionChars),
        l \in 0..MaxQuestionChars}
    \cup {[question |-> VStr(s), max_length |-> MaxQuestionLen] :
             s \in {LongQuestion, " " \o Repeat("why?", MaxQuestionLen \div 4),
                    Repeat("why?", MaxQuestionLen \div 4)}}

PathInputs ==
    {"a.pdf", "a.PDF", "a.txt", "notes.Txt", "a.pdf.bak", "pdf", ".pdf",
     "/etc/x.pdf", "/etcetera.pdf", "/root/x.pdf", "x/../y.pdf", "..",
     "/tmp/etc/x.txt"}
ExtensionInputs ==
    {VNone, VList(<<>>), VList(<<VStr(".pdf")>>), VList(<<VStr(".PDF")>>),
     VList(<<VStr(".pdf"), VStr(".txt")>>), VList(<<VStr(".Txt")>>)}

IdAlphabet == {"a", "Z", "0", "_", "-", ".", " ", "/", "\n"}
IdInputs == StringsOver(IdAlphabet, MaxIdChars)

NullRow == << <<"a", VNone>> >>
\* a row with a numeric, an array and a timestamp column
TypedRow ==
    << <<"price", VFloat(25000)>>, <<"tags", VList(<< VStr("a"), VInt(1) >>)>>,
       <<"created_at", VDateTime(2024, 1, 2, 3, 4, 5)>> >>
RowValues == {EmptyDict, NullRow, UserRow1, UserRow2, TypedRow}
RECURSIVE RowSeqs(_)
RowSeqs(n) ==
    IF n = 0 THEN {<<>>}
    ELSE LET shorter == RowSeqs(n - 1)
         IN  shorter \cup {Append(rs, r) : rs \in shorter, r \in RowValues}

\* the questions given to ask_question: the short ones, and those of 1000
\* and 1001 characters
AskInputs == {i.question : i \in QuestionInputs}

\* max_records: absent, 0, and every count up to one more than the rows
MaxRecordsInputs == {VNone} \cup {VInt(n) : n \in 0..(MaxRows + 1)}

\* a source with a negative score
Source3 == << <<"page", VFloat(15000)>>, <<"similarity", VFloat(-50)>>,
              <<"text", VStr("neg")>> >>

RagResponses ==
    AskResponses
    \cup { << <<"answer", VStr("X.")>>, <<"context", VList(<< Source3 >>)>> >> }
    \cup { << <<"answer", VStr("X.")>>, <<"confidence", VStr("high")>>,
              <<"context", VList(<< Source2, Source1 >>)>> >>,
           EmptyDict }

PureInputs ==
    {[fn |-> "validate_limit", limit |-> v] : v \in LimitInputs}
    \cup {[fn |-> "validate_question", question |-> i.question,
           max_length |-> i.max_length] : i \in QuestionInputs}
    \cup {[fn |-> "validate_file_path", file_path |-> VStr(p),
           allowed_extensions |-> e] : p \in PathInputs, e \in ExtensionInputs}
    \cup {[fn |-> "validate_document_id", document_id |-> VStr(s)] : s \in IdInputs}
    \cup {[fn |-> "format_database_results", results |-> rs, max_records |-> n] :
              rs \in RowSeqs(MaxRows), n \in MaxRecordsInputs}
    \cup {[fn |-> "format_rag_response", response |-> r] : r \in RagResponses}
    \cup {[fn |-> "format_document_list", documents |-> d] : d \in DirectDocumentLists}
    \cup {[fn |-> "ask_question", question |-> s] : s \in AskInputs}

InitPure ==
    /\ phase = "init"
    /\ connection = "none"
    /\ txn = "idle"
    /\ called = FALSE
    /\ call = NoCall
    /\ result = Returned(<<>>)
    /\ ops = <<>>
    /\ closes = 0
    /\ q \in PureInputs
    /\ verdict = NotRun
    /\ tasks = NoTasks
    /\ running = 0

Apply(out) ==
    /\ verdict = NotRun
    /\ verdict' = out
    /\ UNCHANGED <<phase, connection, txn, called, call, result, ops, closes, q, tasks, running>>

ValidateLimit ==
    /\ q.fn = "validate_limit"
    /\ Apply(validate_limit(q.limit))

ValidateQuestion ==
    /\ q.fn = "validate_question"
    /\ Apply(validate_question(q.question, q.max_length))

ValidateFilePath ==
    /\ q.fn = "validate_file_path"
    /\ Apply(validate_file_path(q.file_path, q.allowed_extensions))

ValidateDocumentId ==
    /\ q.fn = "validate_document_id"
    /\ Apply(validate_document_id(q.document_id))

FormatDatabaseResults ==
    /\ q.fn = "format_database_results"
    /\ Apply(Ok(format_database_results(q.results, q.max_records)))

FormatRagResponse ==
    /\ q.fn = "format_rag_response"
    /\ Apply(Ok(format_rag_response(q.response)))

FormatDocumentList ==
    /\ q.fn = "format_document_list"
    /\ Apply(Ok(format_document_list(q.documents)))

\* RAGService.ask_question on a question, the RAG service answering or not
AskQuestion ==
    /\ q.fn = "ask_question"
    /\ verdict = NotRun
    /\ \E h \in {HttpOk(j) : j \in AskResponses} \cup HttpFailures :
           LET r == ask_question(connection, txn, q.question, VNone,
                                 RagEnv(FALSE, FALSE, h))
           IN  /\ verdict' = r.out
               /\ ops' = r.ops
    /\ UNCHANGED <<phase, connection, txn, called, call, result, closes, q,
                   tasks, running>>

NextPure ==
    \/ ValidateLimit
    \/ ValidateQuestion
    \/ ValidateFilePath
    \/ ValidateDocumentId
    \/ FormatDatabaseResults
    \/ FormatRagResponse
    \/ FormatDocumentList
    \/ AskQuestion

SpecPure == InitPure /\ [][NextPure]_vars

\* the function applied to the input q has returned or raised
Ran(fn) == q # NoInput /\ q.fn = fn /\ verdict # NotRun

(***************************************************************************)
(* DatabaseService alone: an object that is constructed, never connected   *)
(* by main(), and then used through its three operations and close().      *)
(***************************************************************************)
StoreQueries ==
    {VStr("SELECT * FROM t"), VStr("UPDATE t SET x=1"), VStr("")}
StoreLimits == {VInt(1), VInt(1001)}
StoreUserIds ==
    {VNone, VStr(""), VStr("u1"), VStr("DROP"), VStr("x'; DELETE FROM users")}

InitStore ==
    /\ phase = "init"
    /\ connection = "none"
    /\ txn = "idle"
    /\ called = FALSE
    /\ call = NoCall
    /\ result = Returned(<<>>)
    /\ ops = <<>>
    /\ closes = 0
    /\ q = NoInput
    /\ verdict = NotRun
    /\ tasks = NoTasks
    /\ running = 0

\* one call of a method of the service, from the call to its return or raise
StoreCall(name, arguments, r) ==
    /\ connection' = r.connection
    /\ txn' = r.txn
    /\ ops' = r.ops
    /\ verdict' = r.out
    /\ call' = [name |-> name, arguments |-> arguments]
    /\ called' = TRUE
    /\ UNCHANGED <<phase, result, closes, q, tasks, running>>

StoreSelect ==
    /\ phase = "init"
    /\ \E query \in StoreQueries, ok \in ConnectAnswers, e \in ExecOutcomes :
           StoreCall("execute_select_query", Dict1("query", query),
                     execute_select_query(connection, txn, query, <<>>,
                                          DbEnv(ok, e)))

StoreGetDocuments ==
    /\ phase = "init"
    /\ \E limit \in StoreLimits, user_id \in StoreUserIds,
          ok \in ConnectAnswers, e \in ExecOutcomes :
           StoreCall("get_documents",
                     << <<"limit", limit>>, <<"user_id", user_id>> >>,
                     get_documents(connection, txn, limit, user_id, DbEnv(ok, e)))

StoreGetUser ==
    /\ phase = "init"
    /\ \E user_id \in StoreUserIds, ok \in ConnectAnswers, e \in ExecOutcomes :
           StoreCall("get_user", Dict1("user_id", user_id),
                     get_user(connection, txn, user_id, DbEnv(ok, e)))

\* close(): the handle, if there is one, is closed; nothing is raised
StoreClose ==
    /\ phase = "init"
    /\ connection' = close(connection)
    /\ txn' = "idle"
    /\ ops' = <<>>
    /\ verdict' = Ok(VNone)
    /\ call' = [name |-> "close", arguments |-> EmptyDict]
    /\ called' = TRUE
    /\ UNCHANGED <<phase, result, closes, q, tasks, running>>

NextStore ==
    \/ StoreSelect
    \/ StoreGetDocuments
    \/ StoreGetUser
    \/ StoreClose

SpecStore == InitStore /\ [][NextStore]_vars

(***************************************************************************)
(* Calls in flight.  The server library starts one task per request; a     *)
(* task runs call_tool -> execute_tool -> _handle_query_database ->         *)
(* execute_select_query on the one event loop.  Another task can run only  *)
(* while the running one is suspended at an await.  The positions of a     *)
(* task:                                                                   *)
(*   idle        no request                                                *)
(*   pending     request received, coroutine not started                   *)
(*   check       query accepted, about to test the handle (line 46)        *)
(*   connecting  psycopg2.connect called, not yet returned (line 27)       *)
(*   executing   cursor.execute called, not yet returned (line 50)         *)
(*   done        returned or raised, response not yet written              *)
(***************************************************************************)
\* the most calls in flight at once
MaxInFlight == 2

Tasks == 1..MaxInFlight

IdleTask == [pc |-> "idle", query |-> VNone, out |-> NotRun]

LoopQueries == {VStr("SELECT * FROM t"), VStr("UPDATE t SET x=1")}

Awaits_atStoreIO(pc) == pc \in {"connecting", "executing"}

\* whether the coroutine gives the event loop away at this position: connect
\* and execute_select_query are plain functions over blocking driver calls,
\* and the handlers call them without await
Awaits(pc) == FALSE

\* the event loop after task i has moved to position pc
LoopAfter(i, pc) == IF pc = "done" \/ Awaits(pc) THEN 0 ELSE i

\* task i may take a step: the loop is free or it holds it
MayRun(i) == running \in {0, i}

MoveTask(i, pc, out) ==
    /\ tasks' = [tasks EXCEPT ![i].pc = pc, ![i].out = out]
    /\ running' = LoopAfter(i, pc)

InitLoop ==
    /\ phase = "serving"
    /\ connection = "open"
    /\ txn = "idle"
    /\ called = FALSE
    /\ call = NoCall
    /\ result = Returned(<<>>)
    /\ ops = <<>>
    /\ closes = 0
    /\ q = NoInput
    /\ verdict = NotRun
    /\ tasks = [i \in Tasks |-> IdleTask]
    /\ running = 0

\* a request arrives and the server creates its task
Receive(i) ==
    /\ tasks[i].pc = "idle"
    /\ \E query \in LoopQueries :
           tasks' = [tasks EXCEPT ![i] = [pc |-> "pending", query |-> query,
                                          out |-> NotRun]]
    /\ UNCHANGED <<phase, connection, txn, called, call, result, ops, closes,
                   q, verdict, running>>

\* the task starts: execute_select_query validates the query (line 43)
StartCall(i) ==
    /\ tasks[i].pc = "pending"
    /\ MayRun(i)
    /\ LET v == validate_sql_query(tasks[i].query)
       IN  IF v.ok THEN MoveTask(i, "check", NotRun)
           ELSE MoveTask(i, "done", v)
    /\ UNCHANGED <<phase, connection, txn, called, call, result, ops, closes,
                   q, verdict>>

\* 'if not self.connection or self.connection.closed' (line 46), then either
\* self.connect() or cursor.execute is called
CheckHandle(i) ==
    /\ tasks[i].pc = "check"
    /\ MayRun(i)
    /\ IF connection \in {"none", "closed"}
       THEN MoveTask(i, "connecting", NotRun)
       ELSE MoveTask(i, "executing", NotRun)
    /\ UNCHANGED <<phase, connection, txn, called, call, result, ops, closes,
                   q, verdict>>

\* psycopg2.connect returns and the handle is assigned, or it raises
FinishConnect(i) ==
    /\ tasks[i].pc = "connecting"
    /\ MayRun(i)
    /\ \E ok \in BOOLEAN :
           LET c == connect(connection, txn, DbEnv(ok, ExecRows(<<>>)))
           IN  /\ connection' = c.connection
               /\ txn' = c.txn
               /\ IF c.out.ok THEN MoveTask(i, "executing", NotRun)
                  ELSE MoveTask(i, "done", c.out)
    /\ UNCHANGED <<phase, called, call, result, ops, closes, q, verdict>>

\* cursor.execute and fetchall return, or raise
FinishExecute(i) ==
    /\ tasks[i].pc = "executing"
    /\ MayRun(i)
    /\ \E e \in ExecOutcomes :
           LET r == CursorExecute(connection, txn, tasks[i].query.s, <<>>,
                                  DbEnv(TRUE, e), <<>>)
           IN  /\ connection' = r.connection
               /\ txn' = r.txn
               /\ MoveTask(i, "done", r.out)
    /\ UNCHANGED <<phase, called, call, result, ops, closes, q, verdict>>

\* the response is written and the task ends
Respond(i) ==
    /\ tasks[i].pc = "done"
    /\ tasks' = [tasks EXCEPT ![i] = IdleTask]
    /\ UNCHANGED <<phase, connection, txn, called, call, result, ops, closes,
                   q, verdict, running>>

NextLoop ==
    \/ \E i \in Tasks : Receive(i)
    \/ \E i \in Tasks : StartCall(i)
    \/ \E i \in Tasks : CheckHandle(i)
    \/ \E i \in Tasks : FinishConnect(i)
    \/ \E i \in Tasks : FinishExecute(i)
    \/ \E i \in Tasks : Respond(i)

SpecLoop == InitLoop /\ [][NextLoop]_vars

(***************************************************************************)
(* Vocabulary of the properties.                                           *)
(***************************************************************************)
RegisteredNames ==
    {"ask_rag", "list_documents", "upload_pdf",
     "query_database", "get_documents_from_db", "get_user_info"}

\* the text of the single item the last call returned
Text == result.items[1].text

\* the error envelope of the specification
Envelope(tool, kind, message) ==
    "Error executing " \o tool \o ": [" \o kind \o "] " \o message

IsErrorText(text) == startswith(text, "Error executing ")

HasKind(text, tool, kind) ==
    startswith(text, "Error executing " \o tool \o ": [" \o kind \o "] ")

\* operations on the store or the RAG service, and opening the file to send
BackingOps == {"connect", "execute", "http_post", "http_get", "open"}
NoBackingOp == \A i \in 1..Len(ops) : ops[i].op \notin BackingOps
NoOpOf(kinds) == \A i \in 1..Len(ops) : ops[i].op \notin kinds

\* the last call was to tool `name`
Called(name) == called /\ call.name = name
Arg(k) == Item(call.arguments, k)
HasArg(k) == Has(call.arguments, k)

\* the required argument of each tool that has one
RequiredArg ==
    [n \in {"query_database", "get_user_info", "ask_rag", "upload_pdf"} |->
        CASE n = "query_database" -> "query"
          [] n = "get_user_info" -> "user_id"
          [] n = "ask_rag" -> "question"
          [] OTHER -> "file_path"]

(***************************************************************************)
(* C1: every call of call_tool, whatever the tool name, the argument bag   *)
(* and the answers of the store and of the RAG service, returns exactly    *)
(* one text item, and no exception escapes.                                *)
(***************************************************************************)
C1_OneTextNoException ==
    called =>
        /\ result.raised = ""
        /\ Len(result.items) = 1
        /\ result.items[1].type = "text"

\* a call during which the store raised came back as one text item
C1_Witness ==
    /\ Called("get_documents_from_db")
    /\ Len(ops) > 0
    /\ ops[Len(ops)].op = "execute"
    /\ ops[Len(ops)].answer.kind = "sql_error"
    /\ Len(result.items) = 1
    /\ IsErrorText(Text)

(***************************************************************************)
(* C2: a call whose tool name is not registered returns the error envelope *)
(* 'Error executing <tool>: [UnknownTool] <message>' and invokes no        *)
(* backing-service operation.  (The code returns 'Unknown tool: <tool>'.)  *)
(***************************************************************************)
C2_UnknownToolEnvelope ==
    (called /\ call.name \notin RegisteredNames) =>
        /\ HasKind(Text, call.name, "UnknownTool")
        /\ NoBackingOp

(***************************************************************************)
(* C3: a call that lacks the required argument of its tool returns an      *)
(* error envelope of kind MissingArgument and invokes no backing-service   *)
(* operation.  (The code returns the envelope of a KeyError.)              *)
(***************************************************************************)
C3_MissingArgumentKind ==
    (called /\ call.name \in DOMAIN RequiredArg
            /\ ~HasArg(RequiredArg[call.name])) =>
        /\ HasKind(Text, call.name, "MissingArgument")
        /\ NoBackingOp

(***************************************************************************)
(* The input check that the last call ran first, and its outcome: Ok, or   *)
(* the exception of the rejection.                                         *)
(***************************************************************************)
UploadCheck(file_path, found) ==
    IF ~found THEN Raise("FileNotFoundError", "File not found: " \o file_path)
    ELSE IF ~endswith(lower(file_path), ".pdf")
         THEN Raise("ValueError", "Only PDF files are supported")
         ELSE Ok(TRUE)

InputCheck ==
    CASE Called("query_database") /\ HasArg("query") ->
             validate_sql_query(Arg("query"))
      [] Called("get_documents_from_db") ->
             validate_limit(Get(call.arguments, "limit", VInt(10)))
      [] Called("ask_rag") /\ HasArg("question") ->
             AskQuestionCheck(Arg("question"))
      [] Called("upload_pdf") /\ HasArg("file_path") /\ IsStr(Arg("file_path")) ->
             UploadCheck(Arg("file_path").s, ops[1].answer)
      [] OTHER -> Ok(TRUE)

RejectionKinds == {"ValidationError", "ValueError", "FileNotFoundError"}
Rejected == called /\ ~InputCheck.ok /\ InputCheck.exc \in RejectionKinds

(***************************************************************************)
(* C4, as claimed: when the input validation of a tool rejects an          *)
(* argument, the returned text is the error envelope of kind InvalidInput  *)
(* with the rejection reason as its message.                               *)
(***************************************************************************)
C4_InvalidInputKind ==
    Rejected => Text = Envelope(call.name, "InvalidInput", InputCheck.msg)

(***************************************************************************)
(* C4, amended: when the input validation of a tool rejects an argument,   *)
(* the returned text is 'Error executing <tool>: [<K>] <reason>', where    *)
(* <K> is the class of the exception of the rejection (ValidationError for *)
(* the SQL query and the limit; ValueError for the question and the file   *)
(* extension, FileNotFoundError for a missing file) and <reason> is the    *)
(* rejection reason, unchanged.                                            *)
(***************************************************************************)
C4_RejectionEnvelope ==
    Rejected =>
        /\ Text = Envelope(call.name, InputCheck.exc, InputCheck.msg)
        /\ call.name \in {"query_database", "get_documents_from_db"}
               => InputCheck.exc = "ValidationError"
        /\ call.name = "ask_rag" => InputCheck.exc = "ValueError"
        /\ call.name = "upload_pdf"
               => InputCheck.exc \in {"ValueError", "FileNotFoundError"}

\* a limit above the maximum was rejected with the reason of validate_limit
C4_Witness ==
    /\ Called("get_documents_from_db")
    /\ HasArg("limit")
    /\ Arg("limit") = VInt(1001)
    /\ Text = "Error executing get_documents_from_db: [ValidationError] "
                  \o "Limit exceeds maximum allowed value of 1000"

(***************************************************************************)
(* C5: a query_database call whose query validate_sql_query rejects never  *)
(* reaches the store: no connect and no cursor.execute happen, the         *)
(* connection handle is left as it was, and the call returns an error      *)
(* envelope.                                                               *)
(***************************************************************************)
RejectedQuery(c) ==
    /\ c.name = "query_database"
    /\ Has(c.arguments, "query")
    /\ ~validate_sql_query(Item(c.arguments, "query")).ok

QueryRejected == called /\ RejectedQuery(call)

C5_RejectedQueryNeverReachesStore ==
    [][(phase = "serving" /\ phase' = "serving") =>
           \A c \in {call'} : \A r \in {result'} :
               RejectedQuery(c) =>
                   /\ ops' = <<>>
                   /\ connection' = connection
                   /\ txn' = txn
                   /\ Len(r.items) = 1
                   /\ IsErrorText(r.items[1].text)]_vars

\* 'UPDATE t SET x=1' came while the connection was closed, and was rejected
\* without a reconnect
C5_Witness ==
    /\ QueryRejected
    /\ Arg("query") = VStr("UPDATE t SET x=1")
    /\ connection = "closed"
    /\ ops = <<>>
    /\ IsErrorText(Text)

(***************************************************************************)
(* C6: an upload_pdf call whose file_path does not end in '.pdf', in any   *)
(* case of letters, is rejected with an error text whether or not the file *)
(* exists; no HTTP request is sent and the file is never opened.           *)
(***************************************************************************)
NotPdf ==
    /\ Called("upload_pdf")
    /\ HasArg("file_path")
    /\ IsStr(Arg("file_path"))
    /\ ~endswith(lower(Arg("file_path").s), ".pdf")

C6_NonPdfRejectedBeforeNetwork ==
    NotPdf =>
        /\ IsErrorText(Text)
        /\ NoOpOf({"open", "http_post", "http_get"})

\* '/tmp/doc.txt' exists and was rejected for its extension
C6_Witness ==
    /\ NotPdf
    /\ Arg("file_path") = VStr("/tmp/doc.txt")
    /\ ops[1].op = "stat"
    /\ ops[1].answer
    /\ Text = "Error executing upload_pdf: [ValueError] Only PDF files are supported"

(***************************************************************************)
(* C7: upload_pdf applies validate_file_path first: a file_path that       *)
(* contains '..' or starts with '/etc' or '/root' is rejected, and the     *)
(* file is not read and no HTTP request is sent, even when the path ends   *)
(* in '.pdf' and the file exists.  (The code never calls                   *)
(* validate_file_path.)                                                    *)
(***************************************************************************)
UnsafePath(path) ==
    contains(path, "..") \/ startswith(path, "/etc") \/ startswith(path, "/root")

C7_UnsafePathRejected ==
    (Called("upload_pdf") /\ HasArg("file_path") /\ IsStr(Arg("file_path"))
         /\ UnsafePath(Arg("file_path").s)) =>
        /\ IsErrorText(Text)
        /\ NoOpOf({"open", "http_post", "http_get"})

(***************************************************************************)
(* C8: get_user_info, when the store answers the lookup with zero rows,    *)
(* returns exactly 'User not found: <user_id>', which is not an error      *)
(* envelope; when it answers with one or more rows, the text is            *)
(* 'User information:' followed by the first row alone, as the single      *)
(* block '--- Record 1 ---'.                                               *)
(***************************************************************************)
LastOp == ops[Len(ops)]

RECURSIVE ColumnLines(_, _)
ColumnLines(row, c) ==
    IF c > Len(row) THEN ""
    ELSE "\n" \o row[c][1] \o ": "
         \o (IF row[c][2] = VNone THEN "NULL" ELSE PyStr(row[c][2]))
         \o ColumnLines(row, c + 1)

RecordBlock(row) == "\n--- Record 1 ---" \o ColumnLines(row, 1)

UserLookupAnswered ==
    /\ Called("get_user_info")
    /\ HasArg("user_id")
    /\ ops # <<>>
    /\ LastOp.op = "execute"
    /\ LastOp.answer.kind = "rows"

C8_UserLookupText ==
    UserLookupAnswered =>
        IF LastOp.answer.rows = <<>>
        THEN /\ Text = "User not found: " \o PyStr(Arg("user_id"))
             /\ ~IsErrorText(Text)
        ELSE /\ Text = "User information:\n\n" \o RecordBlock(LastOp.answer.rows[1])
             /\ ~contains(Text, "--- Record 2 ---")

\* the store held two rows for the id and the text shows the first alone;
\* C8_WitnessNotFound is the lookup of an id the store does not hold
C8_Witness ==
    /\ UserLookupAnswered
    /\ Len(LastOp.answer.rows) = 2
    /\ Text = "User information:\n\n\n--- Record 1 ---\nid: u1\nname: NULL"

C8_WitnessNotFound ==
    /\ UserLookupAnswered
    /\ LastOp.answer.rows = <<>>
    /\ Text = "User not found: missing-id"

(***************************************************************************)
(* C9: get_documents_from_db with an accepted limit (10 when the call      *)
(* gives none) and no user_id sends 'SELECT * FROM documents LIMIT %s'     *)
(* with the limit as the only parameter; with a non-empty user_id it sends *)
(* 'SELECT * FROM documents WHERE user_id = %s LIMIT %s' with the          *)
(* parameters (user_id, limit).  Nothing else is sent to the store, the   *)
(* statement is sent unless the connection could not be opened, and the    *)
(* call returns no error text when the store answers with rows.            *)
(***************************************************************************)
LimitOfCall == IF HasArg("limit") THEN Arg("limit") ELSE VInt(10)

UserIdOfCall == IF HasArg("user_id") THEN Arg("user_id") ELSE VNone

DocumentsQueried ==
    /\ Called("get_documents_from_db")
    /\ IsInt(LimitOfCall)
    /\ LimitOfCall.n >= 1
    /\ LimitOfCall.n <= 1000

Executes == {i \in 1..Len(ops) : ops[i].op = "execute"}

C9_DocumentsStatement ==
    DocumentsQueried =>
        /\ ops # <<>>
        /\ Executes \subseteq {Len(ops)}
        /\ Executes = {} => (LastOp.op = "connect" /\ ~LastOp.answer)
        /\ (LastOp.op = "execute" /\ LastOp.answer.kind = "rows")
               => ~IsErrorText(Text)
        /\ \A i \in Executes :
               IF UserIdOfCall \in {VNone, VStr("")}
               THEN /\ ops[i].arg = "SELECT * FROM documents LIMIT %s"
                    /\ ops[i].params = << LimitOfCall >>
               ELSE /\ ops[i].arg =
                           "SELECT * FROM documents WHERE user_id = %s LIMIT %s"
                    /\ ops[i].params = << UserIdOfCall, LimitOfCall >>

\* a call with neither limit nor user_id sent the unfiltered statement with 10;
\* C9_WitnessFiltered is a call with user_id 'u1' and limit 1
C9_Witness ==
    /\ Called("get_documents_from_db")
    /\ call.arguments = EmptyDict
    /\ ops # <<>>
    /\ LastOp.op = "execute"
    /\ LastOp.arg = "SELECT * FROM documents LIMIT %s"
    /\ LastOp.params = << VInt(10) >>

C9_WitnessFiltered ==
    /\ Called("get_documents_from_db")
    /\ HasArg("user_id")
    /\ ops # <<>>
    /\ LastOp.op = "execute"
    /\ LastOp.params = << VStr("u1"), VInt(1) >>

(***************************************************************************)
(* C10: validate_sql_query accepts a query exactly when its trimmed,       *)
(* upper-cased text starts with SELECT and holds none of DROP, DELETE,     *)
(* TRUNCATE, ALTER, CREATE, INSERT, UPDATE, GRANT, REVOKE, EXECUTE, EXEC   *)
(* as a whole word; a keyword inside a longer identifier does not count.   *)
(***************************************************************************)
ForbiddenWords ==
    {"DROP", "DELETE", "TRUNCATE", "ALTER", "CREATE", "INSERT", "UPDATE",
     "GRANT", "REVOKE", "EXECUTE", "EXEC"}

\* the end of the run of word characters of u that position i is in
RECURSIVE WordEnd(_, _)
WordEnd(u, i) ==
    IF i < Len(u) /\ SubSeq(u, i + 1, i + 1) \in WordChars
    THEN WordEnd(u, i + 1)
    ELSE i

\* the words of u: its maximal runs of word characters
WordsOf(u) ==
    {SubSeq(u, i, WordEnd(u, i)) :
        i \in {j \in 1..Len(u) :
                  /\ SubSeq(u, j, j) \in WordChars
                  /\ (j = 1 \/ SubSeq(u, j - 1, j - 1) \notin WordChars)}}

Accepts(s) ==
    \E u \in {strip(upper(s))} :
        /\ Len(u) >= 6
        /\ SubSeq(u, 1, 6) = "SELECT"
        /\ WordsOf(u) \cap ForbiddenWords = {}

C10_AcceptsExactlySafeSelects ==
    verdict # NotRun => (verdict.ok <=> Accepts(q.s))

\* a query that names a column 'dropped_c' was accepted;
\* C10_WitnessRejected is a SELECT followed by a DROP statement, rejected
C10_Witness ==
    /\ verdict # NotRun
    /\ q = VStr("select dropped_c")
    /\ verdict.ok

C10_WitnessRejected ==
    /\ verdict # NotRun
    /\ q = VStr("SELECT;DROP")
    /\ ~verdict.ok

(***************************************************************************)
(* C11: validate_limit (maximum 1000) accepts a value exactly when it is a *)
(* whole number n with 1 <= n <= 1000; it rejects n < 1, n > 1000 and      *)
(* every value that is not an integer: a string, null, a fraction, a       *)
(* boolean.  (The code accepts the boolean True, an instance of int.)      *)
(***************************************************************************)
WholeNumberInRange(v) == v.t = "int" /\ v.n >= 1 /\ v.n <= 1000

C11_LimitAcceptedIffWholeInRange ==
    Ran("validate_limit") => (verdict.ok <=> WholeNumberInRange(q.limit))

(***************************************************************************)
(* C12: validate_question(q, L) accepts a string q exactly when q holds a  *)
(* character that is not whitespace and the length of q, untrimmed, is at  *)
(* most L.  A question of raw length L + 1 whose trimmed length is within  *)
(* L is rejected, and so is a question of whitespace alone.                *)
(***************************************************************************)
HasNonWhitespace(s) == \E i \in 1..Len(s) : SubSeq(s, i, i) \notin Whitespace

C12_QuestionAcceptedIffNonBlankWithinRawLength ==
    Ran("validate_question") =>
        (verdict.ok <=>
            /\ HasNonWhitespace(q.question.s)
            /\ Len(q.question.s) <= q.max_length)

\* a question of 1001 characters, 1000 of them after trimming, was rejected
\* against the limit 1000
C12_Witness ==
    /\ Ran("validate_question")
    /\ q.max_length = 1000
    /\ Len(q.question.s) = 1001
    /\ Len(strip(q.question.s)) = 1000
    /\ ~verdict.ok

\* a question of blanks and newlines, within the limit, was rejected
C12_WitnessBlank ==
    /\ Ran("validate_question")
    /\ q.question = VStr(" \n")
    /\ q.max_length = 3
    /\ ~verdict.ok

(***************************************************************************)
(* C13: validate_file_path(p, E) rejects a path p that contains '..' or    *)
(* starts with '/etc' or '/root'; any other path is accepted exactly when  *)
(* its suffix matches an extension of the non-empty list E, whatever the   *)
(* case of the letters of p or of the entries of E; with no E, any other   *)
(* path is accepted.  (The code lower-cases p but not the entries of E.)   *)
(***************************************************************************)
SuffixMatches(p, e) == endswith(lower(p), lower(e))

C13_FilePathAcceptedIffSafeWithAllowedSuffix ==
    Ran("validate_file_path") =>
        LET p == q.file_path.s
            E == q.allowed_extensions
        IN  IF UnsafePath(p) THEN ~verdict.ok
            ELSE IF E # VNone /\ E.items # <<>>
                 THEN verdict.ok <=>
                          \E i \in 1..Len(E.items) : SuffixMatches(p, E.items[i].s)
                 ELSE verdict.ok

(***************************************************************************)
(* C14: validate_document_id accepts a string exactly when it is not empty *)
(* and each of its characters is a letter, a digit, '_', '.' or '-'; an id *)
(* with any other character, leading or trailing whitespace included, is   *)
(* rejected.  (The code strips the id before it tests the characters.)     *)
(***************************************************************************)
IdChars == WordChars \cup {".", "-"}

C14_DocumentIdAcceptedIffAllowedCharacters ==
    Ran("validate_document_id") =>
        (verdict.ok <=>
            /\ q.document_id.s # ""
            /\ \A i \in 1..Len(q.document_id.s) :
                   SubSeq(q.document_id.s, i, i) \in IdChars)

(***************************************************************************)
(* C15: format_database_results of no rows is exactly 'No results found';  *)
(* of one or more rows it is one block per row, in the order of the rows,  *)
(* the k-th headed '--- Record k ---' (k from 1) and followed by one       *)
(* '<key>: <value>' line per column, a null value rendered as NULL.        *)
(***************************************************************************)
RECURSIVE RecordBlocks(_, _)
RecordBlocks(rows, k) ==
    IF k > Len(rows) THEN ""
    ELSE (IF k > 1 THEN "\n" ELSE "")
         \o "\n--- Record " \o ToString(k) \o " ---"
         \o ColumnLines(rows[k], 1)
         \o RecordBlocks(rows, k + 1)

C15_RowsRenderedAsNumberedBlocks ==
    (Ran("format_database_results") /\ q.max_records = VNone) =>
        IF q.results = <<>>
        THEN verdict.val = "No results found"
        ELSE verdict.val = RecordBlocks(q.results, 1)

\* two rows, the first with a null column, came out as Record 1 and Record 2;
\* C15_WitnessEmpty is the rendering of no rows
C15_Witness ==
    /\ Ran("format_database_results")
    /\ q.max_records = VNone
    /\ q.results = << NullRow, UserRow2 >>
    /\ verdict.val =
           "\n--- Record 1 ---\na: NULL\n\n--- Record 2 ---\nid: 2\nname: Bo"

C15_WitnessEmpty ==
    /\ Ran("format_database_results")
    /\ q.max_records = VNone
    /\ q.results = <<>>
    /\ verdict.val = "No results found"

(***************************************************************************)
(* C16: format_rag_response renders 'Answer: <text>' followed by a line    *)
(* 'Confidence: <value>', with 'unknown' for an answer that has no         *)
(* confidence, and renders the section 'Sources:' exactly when the sources *)
(* of the answer are not empty.  (The code renders no Confidence line.)    *)
(***************************************************************************)
C16_AnswerConfidenceSources ==
    Ran("format_rag_response") =>
        LET answer == Get(q.response, "answer", VStr("No answer provided"))
            confidence == Get(q.response, "confidence", VStr("unknown"))
            sources == Get(q.response, "context", VList(<<>>))
        IN  /\ startswith(verdict.val,
                   "Answer: " \o PyStr(answer) \o "\n\nConfidence: "
                       \o PyStr(confidence) \o "\n")
            /\ contains(verdict.val, "Sources:") <=> sources.items # <<>>

(***************************************************************************)
(* The failure of a backing service that ended the last call: the store    *)
(* refused the connection or failed the statement, the RAG request timed   *)
(* out or was answered with an error status, or the file was not found.    *)
(***************************************************************************)
ServiceFailed ==
    /\ called
    /\ ops # <<>>
    /\ CASE LastOp.op = "connect" -> ~LastOp.answer
         [] LastOp.op = "execute" -> LastOp.answer.kind # "rows"
         [] LastOp.op \in {"http_post", "http_get"} -> LastOp.answer.kind # "ok"
         [] LastOp.op = "stat" -> ~LastOp.answer
         [] OTHER -> FALSE

\* the class of the exception of the failure
FailureKind ==
    CASE LastOp.op = "connect" -> "OperationalError"
      [] LastOp.op = "execute" -> LastOp.answer.exc
      [] LastOp.op = "stat" -> "FileNotFoundError"
      [] OTHER -> "Exception"

\* the message of the exception of the failure
FailureMessage ==
    CASE LastOp.op = "connect" -> "could not connect to server: Connection refused"
      [] LastOp.op = "execute" -> LastOp.answer.msg
      [] LastOp.op = "stat" -> "File not found: " \o LastOp.arg
      [] call.name = "ask_rag" ->
             IF LastOp.answer.kind = "timeout"
             THEN "RAG API timeout - please try again"
             ELSE "RAG API error: " \o LastOp.answer.cause
      [] call.name = "upload_pdf" -> "Upload error: " \o LastOp.answer.cause
      [] OTHER -> "Failed to list documents: " \o LastOp.answer.cause

(***************************************************************************)
(* C17, as claimed: a failure raised by a backing service during a call    *)
(* yields the error envelope of kind ServiceError.                         *)
(***************************************************************************)
C17_ServiceErrorKind ==
    ServiceFailed => HasKind(Text, call.name, "ServiceError")

(***************************************************************************)
(* C17, amended: a failure raised by a backing service during a call       *)
(* yields 'Error executing <tool>: [<K>] <message>', where <K> is the      *)
(* class of the exception: Exception for every failure of a RAG request    *)
(* (timeouts and error statuses alike, which differ in the message only),  *)
(* FileNotFoundError for a missing file, the class of the driver's         *)
(* exception for a failed connection or statement of the store.  The       *)
(* message carries the cause, except for the timeout of ask_rag, whose     *)
(* message is fixed.                                                       *)
(***************************************************************************)
C17_ServiceFailureEnvelope ==
    ServiceFailed =>
        /\ Len(result.items) = 1
        /\ Text = Envelope(call.name, FailureKind, FailureMessage)
        /\ call.name \in RAGToolNames /\ LastOp.op # "stat"
               => HasKind(Text, call.name, "Exception")

\* the request of ask_rag timed out;
\* C17_WitnessStore is a statement the store failed
C17_Witness ==
    /\ Called("ask_rag")
    /\ ServiceFailed
    /\ LastOp.answer.kind = "timeout"
    /\ Text = "Error executing ask_rag: [Exception] RAG API timeout - please try again"

C17_WitnessStore ==
    /\ Called("query_database")
    /\ ServiceFailed
    /\ Text = "Error executing query_database: [UndefinedTable] "
                  \o "relation t does not exist"

(***************************************************************************)
(* C18: two list_documents calls for which the RAG service returns the     *)
(* same document list return the same text, whatever calls, successful or  *)
(* failed, came before or between them: the text of a list_documents call  *)
(* is a function of the returned list alone, and ListedText is that        *)
(* function on the lists of DocumentLists.                                 *)
(***************************************************************************)
ManualText == "Manual\n   ID: doc-1\n   Created: 2024-01-02\n   Pages: 12\n\n"
UntitledText == "Untitled\n   ID: 2\n   Created: unknown\n   Description: notes\n\n"

ListedText(documents) ==
    CASE documents = <<>> -> "No documents found"
      [] documents = << Doc1 >> ->
             "Found 1 document(s):\n\n1. " \o ManualText
      [] documents = << Doc1, Doc2 >> ->
             "Found 2 document(s):\n\n1. " \o ManualText \o "2. " \o UntitledText
      [] documents = << Doc2, Doc1 >> ->
             "Found 2 document(s):\n\n1. " \o UntitledText \o "2. " \o ManualText

DocumentsListed ==
    /\ Called("list_documents")
    /\ ops # <<>>
    /\ LastOp.op = "http_get"
    /\ LastOp.answer.kind = "ok"

C18_ListTextDependsOnListOnly ==
    DocumentsListed =>
        /\ Len(result.items) = 1
        /\ Text = ListedText(LastOp.answer.json)

\* list_documents returned the text of the two documents after a statement
\* had failed in the store and left the transaction aborted;
\* C18_WitnessClosed is the same list after the connection was lost
C18_Witness ==
    /\ DocumentsListed
    /\ txn = "failed"
    /\ LastOp.answer.json = << Doc1, Doc2 >>
    /\ Text = ListedText(<< Doc1, Doc2 >>)

C18_WitnessClosed ==
    /\ DocumentsListed
    /\ connection = "closed"
    /\ LastOp.answer.json = << Doc1, Doc2 >>
    /\ Text = ListedText(<< Doc1, Doc2 >>)

(***************************************************************************)
(* C19: list_tools returns exactly the six tools ask_rag, list_documents,  *)
(* upload_pdf, query_database, get_documents_from_db and get_user_info;    *)
(* a call of an advertised name reaches a handler of its module and never  *)
(* an unknown-tool branch; a call of any other name takes the unknown-tool *)
(* path of call_tool, which runs nothing.                                  *)
(***************************************************************************)
Advertised == {list_tools[i] : i \in 1..Len(list_tools)}

ReachedUnknownBranch ==
    \/ startswith(Text, "Unknown tool: ")
    \/ contains(Text, "] Unknown database tool: ")
    \/ contains(Text, "] Unknown RAG tool: ")

C19_AdvertisedToolsAreRouted ==
    /\ Len(list_tools) = 6
    /\ Advertised = {"ask_rag", "list_documents", "upload_pdf",
                     "query_database", "get_documents_from_db", "get_user_info"}
    /\ called =>
           /\ Len(result.items) = 1
           /\ IF call.name \in Advertised
              THEN ~ReachedUnknownBranch
              ELSE Text = "Unknown tool: " \o call.name /\ ops = <<>>

\* get_user_info, the last name of the database module, reached its handler
\* and the store; C19_WitnessUnknown is an advertised name in upper case
C19_Witness ==
    /\ Called("get_user_info")
    /\ HasArg("user_id")
    /\ ops # <<>>
    /\ LastOp.op = "execute"
    /\ LastOp.arg = "SELECT * FROM users WHERE id = %s"
    /\ ~ReachedUnknownBranch

C19_WitnessUnknown ==
    /\ Called("ASK_RAG")
    /\ Text = "Unknown tool: ASK_RAG"

(***************************************************************************)
(* C20: after a call that returned an error, the server keeps serving: the *)
(* next call, when its input is valid and the store and the RAG service    *)
(* are healthy, returns its success text and no error envelope.  A failed  *)
(* statement does not leave the shared connection in a state that makes a  *)
(* later valid query fail.  (The code never rolls back: after a failed     *)
(* statement the driver refuses every statement on the connection.)        *)
(***************************************************************************)
ValidInput(c) ==
    CASE c.name = "query_database" ->
             Has(c.arguments, "query")
                 /\ validate_sql_query(Item(c.arguments, "query")).ok
      [] c.name = "get_documents_from_db" ->
             WholeNumberInRange(Get(c.arguments, "limit", VInt(10)))
      [] c.name = "get_user_info" ->
             Has(c.arguments, "user_id") /\ IsStr(Item(c.arguments, "user_id"))
      [] c.name = "ask_rag" ->
             Has(c.arguments, "question")
                 /\ IsStr(Item(c.arguments, "question"))
                 /\ HasNonWhitespace(Item(c.arguments, "question").s)
                 /\ Len(Item(c.arguments, "question").s) <= 1000
      [] c.name = "list_documents" -> TRUE
      [] c.name = "upload_pdf" ->
             Has(c.arguments, "file_path")
                 /\ IsStr(Item(c.arguments, "file_path"))
                 /\ endswith(lower(Item(c.arguments, "file_path").s), ".pdf")
      [] OTHER -> FALSE

\* what the outside world answered during a call shows no fault of its own:
\* the store accepted the connection and had rows for the statement, unless
\* the driver refused the statement for the aborted transaction; the file
\* was there and readable; the RAG service answered
HealthyAnswer(o) ==
    CASE o.op = "connect" -> o.answer
      [] o.op = "execute" -> o.answer.kind \in {"rows", "aborted"}
      [] o.op \in {"stat", "open"} -> o.answer
      [] OTHER -> o.answer.kind = "ok"

Healthy(os) == \A i \in 1..Len(os) : HealthyAnswer(os[i])

C20_KeepsServingAfterError ==
    [][(/\ phase = "serving"
        /\ phase' = "serving"
        /\ called
        /\ Len(result.items) = 1
        /\ IsErrorText(Text)) =>
           \A c \in {call'} : \A os \in {ops'} : \A r \in {result'} :
               (ValidInput(c) /\ Healthy(os)) =>
                   /\ Len(r.items) = 1
                   /\ ~IsErrorText(r.items[1].text)]_vars

(***************************************************************************)
(* C21: lazy reconnect.  In any sequence of store operations, closes and   *)
(* connect failures, a call that reaches execute_select_query with an      *)
(* accepted query connects first if and only if the handle is absent or    *)
(* closed at that moment, and connects at most once.  When that connect    *)
(* fails the call raises without executing the query and the handle stays  *)
(* absent or closed, so the next call connects again; otherwise the query  *)
(* is executed exactly once.                                               *)
(***************************************************************************)
\* the call reaches cursor.execute unless psycopg2.connect fails
ReachesStore(c) ==
    CASE c.name = "execute_select_query" ->
             validate_sql_query(Item(c.arguments, "query")).ok
      [] c.name = "get_documents" ->
             validate_limit(Item(c.arguments, "limit")).ok
      [] c.name = "get_user" -> TRUE
      [] OTHER -> FALSE

OpsOf(os, kind) == {i \in 1..Len(os) : os[i].op = kind}

C21_LazyReconnect ==
    [][\A c \in {call'} : \A os \in {ops'} : \A v \in {verdict'} :
           (phase = "init" /\ ReachesStore(c)) =>
               /\ OpsOf(os, "connect") =
                      (IF connection \in {"none", "closed"} THEN {1} ELSE {})
               /\ IF os # <<>> /\ os[1].op = "connect" /\ ~os[1].answer
                  THEN /\ OpsOf(os, "execute") = {}
                       /\ ~v.ok
                       /\ connection' = connection
                  ELSE OpsOf(os, "execute") = {Len(os)}]_vars

\* a call on the never-connected service found the store unreachable, and the
\* handle is still absent
C21_Witness ==
    /\ called
    /\ ReachesStore(call)
    /\ connection = "none"
    /\ Len(ops) = 1
    /\ ops[1].op = "connect"
    /\ ~ops[1].answer
    /\ ~verdict.ok

\* a call reconnected and then executed its query
C21_WitnessReconnected ==
    /\ called
    /\ ReachesStore(call)
    /\ Len(ops) = 2
    /\ ops[1].op = "connect"
    /\ ops[1].answer
    /\ ops[2].op = "execute"
    /\ verdict.ok

\* a call on an open handle executed without connecting
C21_WitnessOpen ==
    /\ called
    /\ ReachesStore(call)
    /\ Len(ops) = 1
    /\ ops[1].op = "execute"
    /\ connection = "open"

(***************************************************************************)
(* C22: a call issues at most one backing-service operation (one           *)
(* cursor.execute or one HTTP request), a failed operation is never sent   *)
(* again, and the number is 0 when the call fails before the service is    *)
(* invoked (unknown tool, missing or rejected argument, missing or         *)
(* unreadable file, refused connection) and exactly 1 otherwise.           *)
(***************************************************************************)
ServiceOps == {i \in 1..Len(ops) : ops[i].op \in {"execute", "http_post", "http_get"}}

\* the arguments pass the checks the code runs before it uses a service
PassesValidation(c) ==
    CASE c.name = "query_database" ->
             Has(c.arguments, "query")
                 /\ validate_sql_query(Item(c.arguments, "query")).ok
      [] c.name = "get_documents_from_db" ->
             validate_limit(Get(c.arguments, "limit", VInt(10))).ok
      [] c.name = "get_user_info" -> Has(c.arguments, "user_id")
      [] c.name = "ask_rag" ->
             Has(c.arguments, "question")
                 /\ AskQuestionCheck(Item(c.arguments, "question")).ok
      [] c.name = "list_documents" -> TRUE
      [] c.name = "upload_pdf" ->
             Has(c.arguments, "file_path")
                 /\ IsStr(Item(c.arguments, "file_path"))
                 /\ endswith(lower(Item(c.arguments, "file_path").s), ".pdf")
      [] OTHER -> FALSE

\* connecting, finding the file or opening it failed
PreparationFailed ==
    \E i \in 1..Len(ops) : ops[i].op \in {"connect", "stat", "open"} /\ ~ops[i].answer

FailsBeforeService == ~PassesValidation(call) \/ PreparationFailed

C22_OneServiceOperationPerCall ==
    called =>
        /\ Cardinality(ServiceOps) <= 1
        /\ FailsBeforeService => ServiceOps = {}
        /\ ~FailsBeforeService => Cardinality(ServiceOps) = 1

\* a listing that the RAG service answered with an error was sent once
C22_Witness ==
    /\ Called("list_documents")
    /\ Len(ops) = 1
    /\ ops[1].op = "http_get"
    /\ ops[1].answer.kind = "error"
    /\ IsErrorText(Text)

\* a statement of a valid query failed after a reconnect, and was executed once
C22_WitnessStore ==
    /\ Called("query_database")
    /\ PassesValidation(call)
    /\ Len(ops) = 2
    /\ ops[1].op = "connect"
    /\ ops[2].op = "execute"
    /\ ops[2].answer.kind = "sql_error"

\* a call with a rejected question sent nothing
C22_WitnessRejected ==
    /\ Called("ask_rag")
    /\ HasArg("question")
    /\ ~PassesValidation(call)
    /\ ops = <<>>

(***************************************************************************)
(* C23: lifetime of the store connection.  main connects once, at startup, *)
(* before any call is served; on every way out of main (startup connect    *)
(* failure, end of the server by end of input, KeyboardInterrupt or error) *)
(* close() has run exactly once, and not before; close() on the handle     *)
(* that was never opened changes nothing; no tool call runs close(), and   *)
(* during serving the handle is closed only by the store dropping the      *)
(* connection.                                                             *)
(***************************************************************************)
ConnectionDropped(os) ==
    \E i \in 1..Len(os) : os[i].op = "execute" /\ os[i].answer.kind = "conn_lost"

C23_ConnectionLifetime ==
    [][/\ closes' = (IF phase' = "stopped" THEN 1 ELSE 0)
       /\ called' => phase' # "init"
       /\ phase = "init" =>
              /\ ~called
              /\ closes = 0
              /\ connection = "none"
              /\ phase' = "serving" => connection' = "open"
              /\ phase' = "stopped" => connection' = "none"
       /\ (phase = "serving" /\ phase' = "serving") =>
              /\ closes' = closes
              /\ connection' # "none"
              /\ (connection = "open" /\ connection' = "closed") =>
                     \A os \in {ops'} : ConnectionDropped(os)
       /\ (phase = "serving" /\ phase' = "stopped") => connection' = "closed"
       /\ phase # "stopped"]_vars

\* the server stopped after serving a call: closed once
C23_Witness ==
    /\ phase = "stopped"
    /\ called
    /\ closes = 1
    /\ connection = "closed"

\* the startup connect failed: close() ran once on the handle never opened
C23_WitnessStartupFailure ==
    /\ phase = "stopped"
    /\ ~called
    /\ closes = 1
    /\ connection = "none"

(***************************************************************************)
(* C24: the service holds at most one open connection.  With several calls *)
(* in flight, interleaved wherever the event loop can switch between       *)
(* them, psycopg2.connect is never called while the handle is open or      *)
(* while the connect of another call has not returned, and the handle a    *)
(* connect assigns never replaces an open one.                             *)
(***************************************************************************)
Connecting(ts) == {i \in Tasks : ts[i].pc = "connecting"}

InFlight(ts) == {i \in Tasks : ts[i].pc # "idle"}

C24_OneOpenConnection ==
    [][\A i \in Tasks :
           /\ (i \notin Connecting(tasks) /\ i \in Connecting(tasks')) =>
                  /\ connection # "open"
                  /\ Connecting(tasks) = {}
           /\ (i \in Connecting(tasks) /\ i \notin Connecting(tasks')) =>
                  connection # "open"]_vars

\* one call is inside psycopg2.connect while a second call is in flight,
\* waiting for the event loop
C24_Witness ==
    /\ Cardinality(InFlight(tasks)) = 2
    /\ Cardinality(Connecting(tasks)) = 1
    /\ \E i \in Tasks : tasks[i].pc = "pending"
    /\ connection = "closed"

\* a call reconnected while another call, already answered, was still in flight
C24_WitnessReconnected ==
    /\ connection = "open"
    /\ \E i, j \in Tasks :
           /\ tasks[i].pc = "executing"
           /\ tasks[j].pc = "done"
           /\ tasks[j].out = Raise("OperationalError",
                                   "server closed the connection unexpectedly")

(***************************************************************************)
(* C25: whatever user_id and limit the caller gives, the statement that    *)
(* get_documents and get_user send is one of three fixed texts; the        *)
(* caller's values travel as bound parameters only and are no part of the  *)
(* text, so the statement passes validate_sql_query and a user_id such as  *)
(* 'DROP' or "x'; DELETE FROM users" neither changes it nor gets the call  *)
(* rejected for a forbidden keyword.                                       *)
(***************************************************************************)
FixedQueries ==
    {"SELECT * FROM documents WHERE user_id = %s LIMIT %s",
     "SELECT * FROM documents LIMIT %s",
     "SELECT * FROM users WHERE id = %s"}

\* the values of the caller, in the order of the call
CallerValues(c) ==
    IF c.name = "get_user" THEN << Item(c.arguments, "user_id") >>
    ELSE << Item(c.arguments, "user_id"), Item(c.arguments, "limit") >>

\* params is made of values of the caller, the limit among them
BoundFrom(params, values) ==
    /\ \A k \in 1..Len(params) : \E j \in 1..Len(values) : params[k] = values[j]
    /\ params[Len(params)] = values[Len(values)]

TextFreeOf(text, value) ==
    (IsStr(value) /\ value.s # "") => ~contains(text, value.s)

C25_FixedQueriesBoundParameters ==
    (called /\ call.name \in {"get_documents", "get_user"}) =>
        /\ ReachesStore(call) => (verdict.ok \/ verdict.exc # "ValidationError")
        /\ \A i \in OpsOf(ops, "execute") :
               /\ ops[i].arg \in FixedQueries
               /\ validate_sql_query(VStr(ops[i].arg)).ok
               /\ BoundFrom(ops[i].params, CallerValues(call))
               /\ TextFreeOf(ops[i].arg, Item(call.arguments, "user_id"))

\* the user lookup for "x'; DELETE FROM users" was sent as the fixed statement
\* with the id as its parameter, and answered
C25_Witness ==
    /\ called
    /\ call.name = "get_user"
    /\ Item(call.arguments, "user_id") = VStr("x'; DELETE FROM users")
    /\ OpsOf(ops, "execute") # {}
    /\ ops[Len(ops)].arg = "SELECT * FROM users WHERE id = %s"
    /\ ops[Len(ops)].params = << VStr("x'; DELETE FROM users") >>
    /\ verdict.ok

\* the documents of user 'DROP' were asked for with the filtered statement
C25_WitnessDocuments ==
    /\ called
    /\ call.name = "get_documents"
    /\ OpsOf(ops, "execute") # {}
    /\ ops[Len(ops)].arg = "SELECT * FROM documents WHERE user_id = %s LIMIT %s"
    /\ ops[Len(ops)].params = << VStr("DROP"), VInt(1) >>
    /\ verdict.ok

(***************************************************************************)
(* C26: for rows and max_records n >= 1, format_database_results renders   *)
(* the first min(n, len(rows)) rows as record blocks, in order, and        *)
(* appends '(Showing <shown> of <total> total records)' if and only if     *)
(* len(rows) > n; with max_records absent or 0 every row is rendered and   *)
(* there is no footer.                                                     *)
(***************************************************************************)
Shown(rows, n) ==
    IF n # VNone /\ n.n >= 1 /\ n.n < Len(rows) THEN n.n ELSE Len(rows)

Footer(rows, n) ==
    IF n # VNone /\ n.n >= 1 /\ Len(rows) > n.n
    THEN "\n\n(Showing " \o ToString(n.n) \o " of " \o ToString(Len(rows))
             \o " total records)"
    ELSE ""

C26_TruncatedWithFooter ==
    (Ran("format_database_results") /\ q.results # <<>>) =>
        verdict.val =
            RecordBlocks(SubSeq(q.results, 1, Shown(q.results, q.max_records)), 1)
                \o Footer(q.results, q.max_records)

\* two rows with max_records 1: the first row and the footer
C26_Witness ==
    /\ Ran("format_database_results")
    /\ q.results = << NullRow, UserRow2 >>
    /\ q.max_records = VInt(1)
    /\ verdict.val = "\n--- Record 1 ---\na: NULL\n\n(Showing 1 of 2 total records)"

\* two rows with max_records 2: both rows and no footer
C26_WitnessAll ==
    /\ Ran("format_database_results")
    /\ q.results = << NullRow, UserRow2 >>
    /\ q.max_records = VInt(2)
    /\ verdict.val =
           "\n--- Record 1 ---\na: NULL\n\n--- Record 2 ---\nid: 2\nname: Bo"

\* max_records 0 renders every row
C26_WitnessZero ==
    /\ Ran("format_database_results")
    /\ Len(q.results) = 2
    /\ q.max_records = VInt(0)
    /\ verdict.val = RecordBlocks(q.results, 1)

(***************************************************************************)
(* C27: the checks that ask_rag runs, inside RAGService.ask_question,      *)
(* accept exactly the question strings that validate_question(question,    *)
(* 1000) accepts: for every string one rejects if and only if the other    *)
(* does; a rejected question sends no HTTP request, an accepted one sends  *)
(* one.                                                                    *)
(***************************************************************************)
QuestionRejected(out) == ~out.ok /\ out.exc = "ValueError"

C27_SameQuestionsAccepted ==
    Ran("ask_question") =>
        \A v \in {validate_question(q.question, MaxQuestionLen)} :
            /\ QuestionRejected(verdict) <=> ~v.ok
            /\ ~v.ok => ops = <<>>
            /\ v.ok => (Len(ops) = 1 /\ ops[1].op = "http_post")

\* a question of 1001 characters, 1000 of them after stripping, was rejected
\* by both and nothing was sent
C27_Witness ==
    /\ Ran("ask_question")
    /\ Len(q.question.s) = MaxQuestionLen + 1
    /\ Len(strip(q.question.s)) = MaxQuestionLen
    /\ QuestionRejected(verdict)
    /\ ~validate_question(q.question, MaxQuestionLen).ok
    /\ ops = <<>>

\* a question of exactly 1000 characters was accepted by both and sent
C27_WitnessAccepted ==
    /\ Ran("ask_question")
    /\ Len(q.question.s) = MaxQuestionLen
    /\ validate_question(q.question, MaxQuestionLen).ok
    /\ Len(ops) = 1

\* a blank question was rejected by both
C27_WitnessBlank ==
    /\ Ran("ask_question")
    /\ q.question = VStr(" \n")
    /\ QuestionRejected(verdict)
    /\ ops = <<>>

====
